---- MODULE Spec2Model ----
(***************************************************************************)
(* A model of sterm's Korean input method (src/utils/korean_ime.rs) and of *)
(* its terminal session manager (src/terminal/mod.rs).                     *)
(* Characters are Unicode code points (naturals); a Rust String is a       *)
(* sequence of code points; Option<T> is a sequence of length 0 or 1.      *)
(***************************************************************************)
EXTENDS Integers, Sequences, FiniteSets, TLC

VARIABLES
    terminal_states,  \* KoreanIME.terminal_states: terminal id -> KoreanInputState
    op,               \* the operation that ran last
    inp,              \* process_input's input_text of the last call (else empty)
    result,           \* process_input's returned String (completed_chars)
    still_composing,  \* process_input's returned is_composing
    preview,          \* process_input's returned current_composition: Option<char>
    consumed,         \* handle_backspace's returned bool
    completed,        \* finalize_composition's returned Option<char>
    panicked,         \* a call unwound: a failed unwrap(), a str slice off a char boundary
    typed,            \* the characters typed so far in a typing scenario
    sessions,         \* TerminalManager.sessions: session id -> TerminalSession
    is_running,       \* the Arc<Mutex<bool>> of every session created so far
    engine,           \* the event loop, grid and child process of every session created
    active_session,   \* TerminalManager.active_session: Option<SessionId>
    SESSION_ID_COUNTER, \* the process-wide AtomicUsize
    arg,              \* the arguments of the manager operation that ran last
    ret,              \* what it returned: "Ok" or "Err"
    pty_writes,       \* the number of PtyWrite events handled so far
    grid,             \* the terminal engine's grid: lines of cells, and the cursor
    last_content,     \* TerminalSession.last_content: the grid copied by sync()
    extracted,        \* what the extractions since the grid last changed returned
    color_in,         \* the Color handed to to_hex
    hex_in,           \* the string handed to from_hex
    hex_out,          \* what to_hex returned
    color_out,        \* what from_hex returned: a Result<Color>
    event_source,     \* the events in every session's channel from EventProxy
    emitted,          \* the number of events every session's engine has emitted
    worker,           \* every session's pty_event_subscription thread
    pty_events,       \* the (SessionId, Event) pairs in the shared channel
    consumer,         \* the pty_event_processor thread
    received,         \* the events of every session that the pty_event_processor
                      \* has taken off the shared channel
    sent,             \* the text that the input router has written to sessions
    delivered         \* for every registered session, the text of the PtyWrite
                      \* events handed to the manager's event-processing paths

ime_vars == <<terminal_states, inp, result, still_composing, preview,
              consumed, completed, typed>>

mgr_vars == <<sessions, is_running, engine, active_session, SESSION_ID_COUNTER,
              arg, ret, pty_writes>>

view_vars == <<grid, last_content, extracted>>

color_vars == <<color_in, hex_in, hex_out, color_out>>

pipe_vars == <<event_source, emitted, worker, pty_events, consumer, received>>

io_vars == <<view_vars, color_vars, pipe_vars, sent, delivered>>

vars == <<terminal_states, op, inp, result, still_composing, preview,
          consumed, completed, panicked, typed,
          sessions, is_running, engine, active_session, SESSION_ID_COUNTER,
          arg, ret, pty_writes, view_vars, color_vars, pipe_vars, sent,
          delivered>>

(***************************************************************************)
(* Option<T>                                                               *)
(***************************************************************************)
None == <<>>
Some(x) == <<x>>
IsSome(o) == o # <<>>
Unwrap(o) == o[1]

(***************************************************************************)
(* The jamo tables.  U+3131 = 12593 is the first compatibility jamo.       *)
(***************************************************************************)
\* 'ㄱ' 'ㄲ' 'ㄴ' 'ㄷ' 'ㄸ' 'ㄹ' 'ㅁ' 'ㅂ' 'ㅃ' 'ㅅ' 'ㅆ' 'ㅇ' 'ㅈ' 'ㅉ' 'ㅊ' 'ㅋ' 'ㅌ' 'ㅍ' 'ㅎ'
chosungs ==
    << 12593, 12594, 12596, 12599, 12600, 12601, 12609, 12610, 12611,
       12613, 12614, 12615, 12616, 12617, 12618, 12619, 12620, 12621, 12622 >>

\* 'ㅏ' 'ㅐ' 'ㅑ' 'ㅒ' 'ㅓ' 'ㅔ' 'ㅕ' 'ㅖ' 'ㅗ' 'ㅘ' 'ㅙ' 'ㅚ' 'ㅛ' 'ㅜ' 'ㅝ' 'ㅞ' 'ㅟ' 'ㅠ' 'ㅡ' 'ㅢ' 'ㅣ'
jungsungs ==
    << 12623, 12624, 12625, 12626, 12627, 12628, 12629, 12630, 12631, 12632,
       12633, 12634, 12635, 12636, 12637, 12638, 12639, 12640, 12641, 12642, 12643 >>

\* '\0' 'ㄱ' 'ㄲ' 'ㄳ' 'ㄴ' 'ㄵ' 'ㄶ' 'ㄷ' 'ㄹ' 'ㄺ' 'ㄻ' 'ㄼ' 'ㄽ' 'ㄾ' 'ㄿ' 'ㅀ' 'ㅁ' 'ㅂ' 'ㅄ' 'ㅅ'
\* 'ㅆ' 'ㅇ' 'ㅈ' 'ㅊ' 'ㅋ' 'ㅌ' 'ㅍ' 'ㅎ'
jongsungs ==
    << 0, 12593, 12594, 12595, 12596, 12597, 12598, 12599, 12601, 12602, 12603, 12604,
       12605, 12606, 12607, 12608, 12609, 12610, 12612, 12613, 12614, 12615, 12616, 12618,
       12619, 12620, 12621, 12622 >>

\* slice.iter().position(|&c| c == ch): the 0-based index of the first match
position(table, ch) ==
    IF \E i \in 1..Len(table) : table[i] = ch
    THEN Some((CHOOSE i \in 1..Len(table) :
                  table[i] = ch /\ \A j \in 1..(i - 1) : table[j] # ch) - 1)
    ELSE None

get_chosung_index(ch) == position(chosungs, ch)

get_jungsung_index(ch) == position(jungsungs, ch)

get_jongsung_index(ch) == position(jongsungs, ch)

is_consonant(ch) ==
    ch \in { 12593, 12594, 12596, 12599, 12600, 12601, 12609, 12610, 12611,
             12613, 12614, 12615, 12616, 12617, 12618, 12619, 12620, 12621, 12622 }

is_vowel(ch) ==
    ch \in { 12623, 12624, 12625, 12626, 12627, 12628, 12629, 12630, 12631, 12632,
             12633, 12634, 12635, 12636, 12637, 12638, 12639, 12640, 12641, 12642, 12643 }

is_korean_jamo(ch) == is_consonant(ch) \/ is_vowel(ch)

\* compose_korean with a stride of 27 finals
compose_korean_stride27(chosung_idx, jungsung_idx, jongsung_idx) ==
    LET code == 44032 + (chosung_idx * 21 + jungsung_idx) * 27 + jongsung_idx
    IN  IF code \in 55296..57343 \/ code > 1114111 THEN 63 ELSE code

\* 0xAC00 = 44032; char::from_u32 rejects the surrogates and what lies past
\* U+10FFFF, and '?' is 63
compose_korean(chosung_idx, jungsung_idx, jongsung_idx) ==
    LET code == 44032 + (chosung_idx * 21 + jungsung_idx) * 28 + jongsung_idx
    IN  IF code \in 55296..57343 \/ code > 1114111 THEN 63 ELSE code

\* <<first, second, combined>>
combine_consonants(first, second) ==
    LET arms == { <<12593, 12613, 12595>>,   \* ㄱ ㅅ -> ㄳ
                  <<12596, 12616, 12597>>,   \* ㄴ ㅈ -> ㄵ
                  <<12596, 12622, 12598>>,   \* ㄴ ㅎ -> ㄶ
                  <<12601, 12593, 12602>>,   \* ㄹ ㄱ -> ㄺ
                  <<12601, 12609, 12603>>,   \* ㄹ ㅁ -> ㄻ
                  <<12601, 12610, 12604>>,   \* ㄹ ㅂ -> ㄼ
                  <<12601, 12613, 12605>>,   \* ㄹ ㅅ -> ㄽ
                  <<12601, 12620, 12606>>,   \* ㄹ ㅌ -> ㄾ
                  <<12601, 12621, 12607>>,   \* ㄹ ㅍ -> ㄿ
                  <<12601, 12622, 12608>>,   \* ㄹ ㅎ -> ㅀ
                  <<12610, 12613, 12612>> }  \* ㅂ ㅅ -> ㅄ
        hit == { a \in arms : a[1] = first /\ a[2] = second }
    IN  IF hit = {} THEN None ELSE Some((CHOOSE a \in hit : TRUE)[3])

combine_vowels(first, second) ==
    LET arms == { <<12631, 12623, 12632>>,   \* ㅗ ㅏ -> ㅘ
                  <<12631, 12624, 12633>>,   \* ㅗ ㅐ -> ㅙ
                  <<12631, 12643, 12634>>,   \* ㅗ ㅣ -> ㅚ
                  <<12636, 12627, 12637>>,   \* ㅜ ㅓ -> ㅝ
                  <<12636, 12628, 12638>>,   \* ㅜ ㅔ -> ㅞ
                  <<12636, 12643, 12639>>,   \* ㅜ ㅣ -> ㅟ
                  <<12641, 12643, 12642>> }  \* ㅡ ㅣ -> ㅢ
        hit == { a \in arms : a[1] = first /\ a[2] = second }
    IN  IF hit = {} THEN None ELSE Some((CHOOSE a \in hit : TRUE)[3])

(***************************************************************************)
(* KoreanInputState                                                        *)
(***************************************************************************)
KoreanInputState_new ==
    [chosung |-> None, jungsung |-> None, jongsung |-> None, is_composing |-> FALSE]

reset(state) ==
    [state EXCEPT !.chosung = None, !.jungsung = None, !.jongsung = None,
                  !.is_composing = FALSE]

get_current_char(state) ==
    IF IsSome(state.chosung)
    THEN LET cho_idx == get_chosung_index(Unwrap(state.chosung))
             jung_idx == IF IsSome(state.jungsung)
                         THEN get_jungsung_index(Unwrap(state.jungsung)) ELSE None
             jong_opt == IF IsSome(state.jongsung)
                         THEN get_jongsung_index(Unwrap(state.jongsung)) ELSE None
             jong_idx == IF IsSome(jong_opt) THEN Unwrap(jong_opt) ELSE 0
         IN  IF ~IsSome(cho_idx) THEN None
             ELSE IF ~IsSome(jung_idx) THEN None
             ELSE Some(compose_korean(Unwrap(cho_idx), Unwrap(jung_idx), jong_idx))
    ELSE None

\* get_display_char that leaves the final out of the displayed syllable
get_display_char_without_final(state) ==
    IF IsSome(state.chosung)
    THEN IF IsSome(state.jungsung)
         THEN get_current_char([state EXCEPT !.jongsung = None])
         ELSE state.chosung
    ELSE None

get_display_char(state) ==
    IF IsSome(state.chosung)
    THEN IF IsSome(state.jungsung) THEN get_current_char(state) ELSE state.chosung
    ELSE None

\* handle_backspace that clears the chosung and leaves is_composing set
state_handle_backspace_keeps_composing(state) ==
    IF IsSome(state.jongsung) THEN [state EXCEPT !.jongsung = None]
    ELSE IF IsSome(state.jungsung) THEN [state EXCEPT !.jungsung = None]
    ELSE IF IsSome(state.chosung) THEN [state EXCEPT !.chosung = None]
    ELSE state

\* handle_backspace that looks at the jungsung before the jongsung
state_handle_backspace_medial_first(state) ==
    IF IsSome(state.jungsung) THEN [state EXCEPT !.jungsung = None]
    ELSE IF IsSome(state.jongsung) THEN [state EXCEPT !.jongsung = None]
    ELSE IF IsSome(state.chosung)
         THEN [state EXCEPT !.chosung = None, !.is_composing = FALSE]
    ELSE state

state_handle_backspace(state) ==
    IF IsSome(state.jongsung) THEN [state EXCEPT !.jongsung = None]
    ELSE IF IsSome(state.jungsung) THEN [state EXCEPT !.jungsung = None]
    ELSE IF IsSome(state.chosung)
         THEN [state EXCEPT !.chosung = None, !.is_composing = FALSE]
    ELSE state

\* result.push(c) for an Option<char> that is Some
push_opt(s, o) == IF IsSome(o) THEN Append(s, Unwrap(o)) ELSE s

(***************************************************************************)
(* KoreanIME.  A call's outcome is [state, result, panic]: the session's   *)
(* state after it, the text it built, and whether an unwrap() failed.      *)
(***************************************************************************)
Outcome(state, text) == [state |-> state, result |-> text, panic |-> FALSE]

Panic(state) == [state |-> state, result |-> <<>>, panic |-> TRUE]

process_korean_char(state, ch) ==
    IF is_consonant(ch)
    THEN IF ~IsSome(state.chosung)
         THEN \* First consonant - set as chosung
              Outcome([state EXCEPT !.chosung = Some(ch), !.is_composing = TRUE], <<>>)
         ELSE IF IsSome(state.jungsung) /\ ~IsSome(state.jongsung)
         THEN \* Have chosung + jungsung, this becomes jongsung
              Outcome([state EXCEPT !.jongsung = Some(ch)], <<>>)
         ELSE IF IsSome(state.jongsung)
         THEN LET combined == combine_consonants(Unwrap(state.jongsung), ch)
              IN  IF IsSome(combined)
                  THEN Outcome([state EXCEPT !.jongsung = combined], <<>>)
                  ELSE \* Can't combine - complete current and start new
                       Outcome([reset(state) EXCEPT !.chosung = Some(ch),
                                                    !.is_composing = TRUE],
                               push_opt(<<>>, get_current_char(state)))
         ELSE \* Already have chosung but no jungsung - complete and start new
              Outcome([reset(state) EXCEPT !.chosung = Some(ch), !.is_composing = TRUE],
                      push_opt(<<>>, get_current_char(state)))
    ELSE IF is_vowel(ch)
    THEN IF IsSome(state.chosung) /\ ~IsSome(state.jungsung)
         THEN \* Have chosung, this becomes jungsung
              Outcome([state EXCEPT !.jungsung = Some(ch)], <<>>)
         ELSE IF IsSome(state.jungsung)
         THEN IF IsSome(state.jongsung)
              THEN \* Have jongsung - need to move it to new syllable
                   IF ~IsSome(state.chosung) THEN Panic(state)
                   ELSE LET cho_idx == get_chosung_index(Unwrap(state.chosung))
                            jung_idx == get_jungsung_index(Unwrap(state.jungsung))
                        IN  IF ~IsSome(cho_idx) \/ ~IsSome(jung_idx) THEN Panic(state)
                            ELSE Outcome(
                                   [reset(state) EXCEPT !.chosung = state.jongsung,
                                                        !.jungsung = Some(ch),
                                                        !.is_composing = TRUE],
                                   <<compose_korean(Unwrap(cho_idx), Unwrap(jung_idx), 0)>>)
              ELSE LET combined == combine_vowels(Unwrap(state.jungsung), ch)
                   IN  IF IsSome(combined)
                       THEN Outcome([state EXCEPT !.jungsung = combined], <<>>)
                       ELSE \* Can't combine - complete current
                            Outcome(reset(state),
                                    Append(push_opt(<<>>, get_current_char(state)), ch))
         ELSE \* No chosung - can't start with vowel
              Outcome(state, <<ch>>)
    ELSE Outcome(state, <<>>)

\* char::is_control: the general category Cc
is_control(ch) == ch \in 0..31 \/ ch \in 127..159

\* '\u{f700}' | '\u{f701}' | '\u{f702}' | '\u{f703}'
is_macos_arrow(ch) == ch \in {63232, 63233, 63234, 63235}

\* "\u{1b}OA", "\u{1b}OB", "\u{1b}OD", "\u{1b}OC"
ansi_seq(ch) ==
    CASE ch = 63232 -> <<27, 79, 65>>
      [] ch = 63233 -> <<27, 79, 66>>
      [] ch = 63234 -> <<27, 79, 68>>
      [] ch = 63235 -> <<27, 79, 67>>

\* what a force-commit pushes: the bare chosung of an incomplete composition,
\* else the composed character
interrupt_commit(state) ==
    LET is_incomplete == IsSome(state.chosung) /\ ~IsSome(state.jungsung)
    IN  IF is_incomplete THEN push_opt(<<>>, state.chosung)
        ELSE push_opt(<<>>, get_current_char(state))

\* one turn of the loop `for ch in input_text.chars()`
process_char(state, ch) ==
    IF is_macos_arrow(ch)
    THEN IF state.is_composing
         THEN Outcome(reset(state), interrupt_commit(state))
         ELSE Outcome(state, ansi_seq(ch))
    ELSE IF is_korean_jamo(ch)
    THEN process_korean_char(state, ch)
    ELSE \* Non-Korean character
         IF state.is_composing
         THEN IF ch = 13 \/ ch = 10
              THEN Outcome(reset(state), interrupt_commit(state))
              ELSE IF ch = 27
              THEN Outcome(reset(state), Append(interrupt_commit(state), ch))
              ELSE IF ch = 32
              THEN Outcome(reset(state), Append(interrupt_commit(state), ch))
              ELSE IF ~is_control(ch)
              THEN Outcome(reset(state), Append(interrupt_commit(state), ch))
              ELSE Outcome(reset(state), Append(interrupt_commit(state), ch))
         ELSE Outcome(state, <<ch>>)

RECURSIVE process_chars(_, _, _)
process_chars(state, text, acc) ==
    IF text = <<>> THEN Outcome(state, acc)
    ELSE LET r == process_char(state, Head(text))
         IN  IF r.panic THEN Panic(r.state)
             ELSE process_chars(r.state, Tail(text), acc \o r.result)

\* input_text.starts_with("\x1b[")
starts_with_csi(text) == Len(text) >= 2 /\ text[1] = 27 /\ text[2] = 91

\* the state and text of process_input; the returned tuple is
\* (result, state.is_composing, current_composition)
process_input(state, input_text) ==
    IF starts_with_csi(input_text)
    THEN IF state.is_composing
         THEN Outcome(reset(state), push_opt(<<>>, get_current_char(state)))
         ELSE Outcome(state, input_text)
    ELSE process_chars(state, input_text, <<>>)

current_composition(state) ==
    IF state.is_composing THEN get_display_char(state) ELSE None

(***************************************************************************)
(* The operations of KoreanIME as actions on one IME instance.             *)
(***************************************************************************)
TerminalIds == {0}

\* terminal_states.entry(terminal_id).or_insert_with(KoreanInputState::new)
get_or_create_state(terminal_id) ==
    IF terminal_id \in DOMAIN terminal_states
    THEN terminal_states[terminal_id] ELSE KoreanInputState_new

\* terminal_states with terminal_id's entry set to state
put_state(terminal_id, state) ==
    [t \in (DOMAIN terminal_states) \cup {terminal_id} |->
        IF t = terminal_id THEN state ELSE terminal_states[t]]

KoreanIME_process_input(terminal_id, input_text) ==
    /\ ~panicked
    /\ LET r == process_input(get_or_create_state(terminal_id), input_text)
       IN  /\ terminal_states' = put_state(terminal_id, r.state)
           /\ panicked' = r.panic
           /\ result' = r.result
           /\ still_composing' = (~r.panic /\ r.state.is_composing)
           /\ preview' = IF r.panic THEN None ELSE current_composition(r.state)
    /\ op' = "process_input"
    /\ inp' = input_text
    /\ consumed' = FALSE
    /\ completed' = None

KoreanIME_finalize_composition(terminal_id) ==
    /\ ~panicked
    /\ IF terminal_id \in DOMAIN terminal_states /\ terminal_states[terminal_id].is_composing
       THEN /\ completed' = get_current_char(terminal_states[terminal_id])
            /\ terminal_states' = put_state(terminal_id, reset(terminal_states[terminal_id]))
       ELSE /\ completed' = None
            /\ UNCHANGED terminal_states
    /\ op' = "finalize_composition"
    /\ inp' = <<>>
    /\ result' = <<>>
    /\ still_composing' = FALSE
    /\ preview' = None
    /\ consumed' = FALSE
    /\ UNCHANGED panicked

KoreanIME_handle_backspace(terminal_id) ==
    /\ ~panicked
    /\ IF terminal_id \in DOMAIN terminal_states /\ terminal_states[terminal_id].is_composing
       THEN /\ terminal_states' =
                  put_state(terminal_id, state_handle_backspace(terminal_states[terminal_id]))
            /\ consumed' = TRUE
       ELSE /\ consumed' = FALSE
            /\ UNCHANGED terminal_states
    /\ op' = "handle_backspace"
    /\ inp' = <<>>
    /\ result' = <<>>
    /\ still_composing' = FALSE
    /\ preview' = None
    /\ completed' = None
    /\ UNCHANGED panicked

KoreanIME_remove_terminal(terminal_id) ==
    /\ ~panicked
    /\ terminal_states' = [t \in (DOMAIN terminal_states) \ {terminal_id} |-> terminal_states[t]]
    /\ op' = "remove_terminal"
    /\ inp' = <<>>
    /\ result' = <<>>
    /\ still_composing' = FALSE
    /\ preview' = None
    /\ consumed' = FALSE
    /\ completed' = None
    /\ UNCHANGED panicked

(***************************************************************************)
(* The keys.  Consonants and Vowels are every jamo the engine accepts.     *)
(***************************************************************************)
Consonants == { chosungs[i] : i \in 1..Len(chosungs) }

Vowels == { jungsungs[i] : i \in 1..Len(jungsungs) }

\* LF, CR, ESC, space, 'a', ETX (a control character)
NonKoreanChars == {10, 13, 27, 32, 97, 3}

ArrowChars == {63232, 63233, 63234, 63235}

\* ESC [ A
ArrowSequence == <<27, 91, 65>>

\* the arguments of an operation that takes none
(***************************************************************************)
(* utils/color.rs: Color, and the hex strings of its channels.  A string   *)
(* is the sequence of its code points; the strings handled here are ASCII, *)
(* so that a byte offset is a character offset.                            *)
(***************************************************************************)
Color_rgb(r, g, b) == [r |-> r, g |-> g, b |-> b, a |-> 255]

\* Color::from_hex: Ok(color) is Some(color), Err is None
from_hex(string) ==
    LET RECURSIVE trim_start_matches(_)
        \* str::trim_start_matches('#')
        trim_start_matches(s) ==
            IF s # <<>> /\ s[1] = 35 THEN trim_start_matches(Tail(s)) ELSE s
        \* char::to_digit(16): '0'..'9', 'a'..'f', 'A'..'F'
        to_digit(ch) ==
            IF ch \in 48..57 THEN Some(ch - 48)
            ELSE IF ch \in 97..102 THEN Some(ch - 87)
            ELSE IF ch \in 65..70 THEN Some(ch - 55)
            ELSE None
        \* u8::from_str_radix(src, 16) of a two-character src: a leading '+'
        \* is accepted when a digit follows it
        from_str_radix(src) ==
            LET digits == IF src[1] = 43 THEN Tail(src) ELSE src
            IN  IF \E i \in 1..Len(digits) : ~IsSome(to_digit(digits[i]))
                THEN None
                ELSE IF Len(digits) = 1
                THEN to_digit(digits[1])
                ELSE Some(Unwrap(to_digit(digits[1])) * 16 + Unwrap(to_digit(digits[2])))
        hex == trim_start_matches(string)
    IN  IF Len(hex) # 6
        THEN None
        ELSE LET r == from_str_radix(SubSeq(hex, 1, 2))
                 g == from_str_radix(SubSeq(hex, 3, 4))
                 b == from_str_radix(SubSeq(hex, 5, 6))
             IN  IF IsSome(r) /\ IsSome(g) /\ IsSome(b)
                 THEN Some(Color_rgb(Unwrap(r), Unwrap(g), Unwrap(b)))
                 ELSE None

\* Color::to_hex: format!("#{:02x}{:02x}{:02x}", r, g, b)
to_hex(color) ==
    LET digit(d) == IF d < 10 THEN 48 + d ELSE 87 + d
        lower_hex(n) == <<digit(n \div 16), digit(n % 16)>>
    IN  <<35>> \o lower_hex(color.r) \o lower_hex(color.g) \o lower_hex(color.b)

\* ColorTheme::default is dark_theme: from_hex(h).unwrap() of "#1e1e1e",
\* "#ffffff", "#000000", "#cd0000" and so on, written as code points
ColorTheme_default ==
    [background     |-> Unwrap(from_hex(<<35, 49, 101, 49, 101, 49, 101>>)),
     foreground     |-> Unwrap(from_hex(<<35, 102, 102, 102, 102, 102, 102>>)),
     black          |-> Unwrap(from_hex(<<35, 48, 48, 48, 48, 48, 48>>)),
     red            |-> Unwrap(from_hex(<<35, 99, 100, 48, 48, 48, 48>>)),
     green          |-> Unwrap(from_hex(<<35, 48, 48, 99, 100, 48, 48>>)),
     yellow         |-> Unwrap(from_hex(<<35, 99, 100, 99, 100, 48, 48>>)),
     blue           |-> Unwrap(from_hex(<<35, 48, 48, 48, 48, 101, 101>>)),
     magenta        |-> Unwrap(from_hex(<<35, 99, 100, 48, 48, 99, 100>>)),
     cyan           |-> Unwrap(from_hex(<<35, 48, 48, 99, 100, 99, 100>>)),
     white          |-> Unwrap(from_hex(<<35, 101, 53, 101, 53, 101, 53>>)),
     bright_black   |-> Unwrap(from_hex(<<35, 55, 102, 55, 102, 55, 102>>)),
     bright_red     |-> Unwrap(from_hex(<<35, 102, 102, 48, 48, 48, 48>>)),
     bright_green   |-> Unwrap(from_hex(<<35, 48, 48, 102, 102, 48, 48>>)),
     bright_yellow  |-> Unwrap(from_hex(<<35, 102, 102, 102, 102, 48, 48>>)),
     bright_blue    |-> Unwrap(from_hex(<<35, 53, 99, 53, 99, 102, 102>>)),
     bright_magenta |-> Unwrap(from_hex(<<35, 102, 102, 48, 48, 102, 102>>)),
     bright_cyan    |-> Unwrap(from_hex(<<35, 48, 48, 102, 102, 102, 102>>)),
     bright_white   |-> Unwrap(from_hex(<<35, 102, 102, 102, 102, 102, 102>>))]

\* an ansi::Color is Named, Spec or Indexed; of the named colours the grids
\* below use Foreground, Background and Red
AnsiColor(kind, name, rgb, index) == [kind |-> kind, name |-> name, rgb |-> rgb, index |-> index]

\* ColorTheme::convert_ansi_color, with get_named_color, get_indexed_color
\* (0..15 the ANSI colours, 16..231 the 6x6x6 cube, 232..255 the grayscale
\* ramp) and get_ansi_color
convert_ansi_color(theme, color) ==
    LET get_named_color(named_color) ==
            CASE named_color = "Foreground" -> theme.foreground
              [] named_color = "Background" -> theme.background
              [] named_color = "Red"        -> theme.red
        get_ansi_color(index) ==
            CASE index = 0 -> theme.black
              [] index = 1 -> theme.red
              [] index = 2 -> theme.green
              [] index = 3 -> theme.yellow
              [] index = 4 -> theme.blue
              [] index = 5 -> theme.magenta
              [] index = 6 -> theme.cyan
              [] index = 7 -> theme.white
              [] index = 8 -> theme.bright_black
              [] index = 9 -> theme.bright_red
              [] index = 10 -> theme.bright_green
              [] index = 11 -> theme.bright_yellow
              [] index = 12 -> theme.bright_blue
              [] index = 13 -> theme.bright_magenta
              [] index = 14 -> theme.bright_cyan
              [] index = 15 -> theme.bright_white
              [] OTHER -> theme.foreground
        level(v) == IF v = 0 THEN 0 ELSE 55 + v * 40
        get_indexed_color(index) ==
            IF index <= 15
            THEN get_ansi_color(index)
            ELSE IF index <= 231
            THEN Color_rgb(level(((index - 16) \div 36) % 6),
                           level(((index - 16) \div 6) % 6),
                           level((index - 16) % 6))
            ELSE Color_rgb(8 + (index - 232) * 10, 8 + (index - 232) * 10,
                           8 + (index - 232) * 10)
    IN  CASE color.kind = "Named"   -> get_named_color(color.name)
          [] color.kind = "Spec"    -> Color_rgb(color.rgb[1], color.rgb[2], color.rgb[3])
          [] color.kind = "Indexed" -> get_indexed_color(color.index)

(***************************************************************************)
(* The terminal engine's grid, and TerminalSession's extraction of colored *)
(* segments from it.  A cell is [c, fg, bg, flags]; a wide character takes *)
(* a cell flagged WIDE_CHAR and, after it, a spacer cell flagged           *)
(* WIDE_CHAR_SPACER.  The model's grid is a window of ScreenLines lines of *)
(* Columns cells.                                                          *)
(***************************************************************************)
Columns == 12

ScreenLines == 2

\* Cell::default: a space in the default colours
Cell_default ==
    [c |-> 32, fg |-> AnsiColor("Named", "Foreground", <<0, 0, 0>>, 0),
     bg |-> AnsiColor("Named", "Background", <<0, 0, 0>>, 0), flags |-> {}]

\* the cells the engine is made to write: 'a', a red 'b', the three-byte
\* arrow U+2192, the wide syllable U+AC00 with its spacer, an inverse 'c',
\* a dim 'd' in the cube colour 208 on an RGB background, and a blank
CellKinds ==
    [plain   |-> <<[Cell_default EXCEPT !.c = 97]>>,
     red     |-> <<[Cell_default EXCEPT !.c = 98,
                                        !.fg = AnsiColor("Named", "Red", <<0, 0, 0>>, 0)]>>,
     arrow   |-> <<[Cell_default EXCEPT !.c = 8594]>>,
     wide    |-> <<[Cell_default EXCEPT !.c = 44032, !.flags = {"WIDE_CHAR"}],
                   [Cell_default EXCEPT !.flags = {"WIDE_CHAR_SPACER"}]>>,
     inverse |-> <<[Cell_default EXCEPT !.c = 99, !.flags = {"INVERSE"}]>>,
     dim     |-> <<[Cell_default EXCEPT !.c = 100,
                                        !.fg = AnsiColor("Indexed", "", <<0, 0, 0>>, 208),
                                        !.bg = AnsiColor("Spec", "", <<10, 20, 30>>, 0),
                                        !.flags = {"DIM"}]>>,
     blank   |-> <<Cell_default>>]

\* the lines the engine is made to write: lead cells of one kind, the rest
\* of the line of another; a column left over by a two-cell kind is blank
GridLines ==
    LET RECURSIVE Fill(_, _)
        Fill(unit, width) ==
            IF width = 0 THEN <<>>
            ELSE IF Len(unit) > width THEN <<Cell_default>> \o Fill(unit, width - 1)
            ELSE unit \o Fill(unit, width - Len(unit))
        Line(k1, lead, k2) ==
            Fill(CellKinds[k1], lead) \o Fill(CellKinds[k2], Columns - lead)
    IN  {Line("blank", 0, "blank"), Line("plain", 0, "plain"), Line("plain", 1, "arrow"),
         Line("red", 2, "plain"), Line("wide", 0, "wide"), Line("plain", 1, "wide"),
         Line("wide", 2, "red"), Line("inverse", 1, "dim")}

\* Term::new: every cell blank, the cursor at the origin
Grid_new ==
    [lines |-> [l \in 1..ScreenLines |-> [col \in 1..Columns |-> Cell_default]],
     cursor |-> <<0, 0>>]

\* String::len of a string of code points: the bytes of its UTF-8 form
RECURSIVE text_len(_)
text_len(text) ==
    LET len_utf8(c) == IF c < 128 THEN 1 ELSE IF c < 2048 THEN 2
                       ELSE IF c < 65536 THEN 3 ELSE 4
    IN  IF text = <<>> THEN 0 ELSE len_utf8(Head(text)) + text_len(Tail(text))

\* the bytes of a segment's text that the extraction slices off for its
\* debug preview
PreviewLen == 30

\* let text_preview = if seg.text.len() > 30 { format!(.., &seg.text[..30]) }:
\* the slice unwinds when byte 30 is no character boundary
preview_panics(text) ==
    /\ text_len(text) > PreviewLen
    /\ ~\E k \in 0..Len(text) : text_len(SubSeq(text, 1, k)) = PreviewLen

\* ((channel as f32) * 0.7) as u8, on the three channels of a colour
dim(color) ==
    [r |-> (color.r * 7) \div 10, g |-> (color.g * 7) \div 10,
     b |-> (color.b * 7) \div 10, a |-> color.a]

\* the [fg, bg] of a cell whose colours the theme gave as fg0 and bg0: swapped
\* by INVERSE, the foreground then scaled by DIM
apply_flags(fg0, bg0, flags) ==
    [fg |-> IF "DIM" \in flags
            THEN dim(IF "INVERSE" \in flags THEN bg0 ELSE fg0)
            ELSE IF "INVERSE" \in flags THEN bg0 ELSE fg0,
     bg |-> IF "INVERSE" \in flags THEN fg0 ELSE bg0]

\* the resolved [fg, bg] of a cell
resolved_colors(theme, cell) ==
    apply_flags(convert_ansi_color(theme, cell.fg), convert_ansi_color(theme, cell.bg),
                cell.flags)

\* the ColoredTextSegment of the segment under construction; nothing when
\* its text is empty
closed_segment(w) ==
    IF w.current_segment_text = <<>> THEN <<>>
    ELSE <<[text |-> w.current_segment_text, fg_color |-> w.current_fg,
            bg_color |-> w.current_bg, line |-> w.current_line,
            start_col |-> w.segment_start_col,
            end_col |-> w.segment_start_col + Len(w.current_segment_text)]>>

\* if line_num != current_line: the line's segments are moved to the result
\* and the segment under construction starts over in the cell's colours
line_changed(w, line_num, col) ==
    IF line_num # w.current_line
    THEN [w EXCEPT !.segments = w.segments \o w.line_segments \o closed_segment(w),
                   !.current_line = line_num,
                   !.line_segments = <<>>,
                   !.current_segment_text = <<>>,
                   !.segment_start_col = 0,
                   !.current_fg = col.fg,
                   !.current_bg = col.bg]
    ELSE w

\* if colors_changed && !current_segment_text.is_empty(): the segment under
\* construction is closed and the next one starts after its characters
colors_changed(w, col) ==
    IF /\ \/ col.fg.r # w.current_fg.r \/ col.fg.g # w.current_fg.g
          \/ col.fg.b # w.current_fg.b
          \/ col.bg.r # w.current_bg.r \/ col.bg.g # w.current_bg.g
          \/ col.bg.b # w.current_bg.b
       /\ w.current_segment_text # <<>>
    THEN [w EXCEPT !.line_segments = w.line_segments \o closed_segment(w),
                   !.segment_start_col = w.segment_start_col + Len(w.current_segment_text),
                   !.current_segment_text = <<>>,
                   !.current_fg = col.fg,
                   !.current_bg = col.bg]
    ELSE w

\* current_segment_text.push(cell.c)
push(w, c) == [w EXCEPT !.current_segment_text = Append(w.current_segment_text, c)]

\* the loop's body for a cell that is no spacer, in resolved colours col
place_cell(w, line_num, col, c) ==
    push(colors_changed(line_changed(w, line_num, col), col), c)

\* one turn of the loop over grid.display_iter(): the cell of line line_num
walk_cell(theme, w, line_num, cell) ==
    IF "WIDE_CHAR_SPACER" \in cell.flags THEN w
    ELSE place_cell(w, line_num, resolved_colors(theme, cell), cell.c)

\* the loop from cell number i (counted from 0, line by line) to the last;
\* the loop's variables are computed cell by cell, as the loop does
RECURSIVE walk(_, _, _, _)
walk(theme, lines, w, i) ==
    IF i >= Len(lines) * Columns THEN w
    ELSE LET line_num == i \div Columns
             next == walk_cell(theme, w, line_num, lines[line_num + 1][(i % Columns) + 1])
         IN  IF next = w
             THEN walk(theme, lines, w, i + 1)
             ELSE walk(theme, lines, next, i + 1)

\* TerminalSession::sync: the grid and the cursor copied into last_content
sync(g) == [grid |-> g.lines, cursor_line |-> g.cursor[1], cursor_col |-> g.cursor[2]]

\* after the loop: the last line's segments and the segment under
\* construction join the result
all_segments(w) == w.segments \o w.line_segments \o closed_segment(w)

\* the ColoredTerminalContent built from the segments; panic when the debug
\* preview of a segment slices its text off a character boundary
ColoredTerminalContent(content, segments) ==
    IF \E i \in 1..Len(segments) : preview_panics(segments[i].text)
    THEN [panic |-> TRUE, segments |-> <<>>, cursor_line |-> 0, cursor_col |-> 0,
          total_lines |-> 0, total_cols |-> 0]
    ELSE [panic |-> FALSE, segments |-> segments,
          cursor_line |-> content.cursor_line, cursor_col |-> content.cursor_col,
          total_lines |-> Len(content.grid), total_cols |-> Len(content.grid[1])]

\* the ColoredTerminalContent of what sync() returned
extract_colored_terminal_content(content) ==
    ColoredTerminalContent(
        content,
        all_segments(walk(ColorTheme_default, content.grid,
                          [segments |-> <<>>, current_line |-> 0, line_segments |-> <<>>,
                           current_segment_text |-> <<>>,
                           current_fg |-> ColorTheme_default.foreground,
                           current_bg |-> ColorTheme_default.background,
                           segment_start_col |-> 0],
                          0)))

NoArg == [id |-> 0, kind |-> "", data |-> <<>>]

Init ==
    /\ terminal_states = <<>>
    /\ op = "new"
    /\ inp = <<>>
    /\ result = <<>>
    /\ still_composing = FALSE
    /\ preview = None
    /\ consumed = FALSE
    /\ completed = None
    /\ panicked = FALSE
    /\ typed = <<>>
    /\ sessions = <<>>
    /\ is_running = <<>>
    /\ engine = <<>>
    /\ active_session = None
    /\ SESSION_ID_COUNTER = 0
    /\ arg = NoArg
    /\ ret = "Ok"
    /\ pty_writes = 0
    /\ grid = Grid_new
    /\ last_content = sync(Grid_new)
    /\ extracted = <<>>
    /\ color_in = Color_rgb(0, 0, 0)
    /\ hex_in = <<>>
    /\ hex_out = <<>>
    /\ color_out = None
    /\ event_source = <<>>
    /\ emitted = <<>>
    /\ worker = <<>>
    /\ pty_events = <<>>
    /\ consumer = "running"
    /\ received = <<>>
    /\ sent = <<>>
    /\ delivered = <<>>

FinalizeComposition ==
    \E tid \in TerminalIds : KoreanIME_finalize_composition(tid) /\ UNCHANGED <<typed, mgr_vars, io_vars>>

HandleBackspace ==
    \E tid \in TerminalIds : KoreanIME_handle_backspace(tid) /\ UNCHANGED <<typed, mgr_vars, io_vars>>

RemoveTerminal ==
    \E tid \in TerminalIds : KoreanIME_remove_terminal(tid) /\ UNCHANGED <<typed, mgr_vars, io_vars>>

(***************************************************************************)
(* Spec: any sequence of the four operations, every return value observed. *)
(* The keys are a part of the jamo that reaches every branch: consonants   *)
(* that combine ('ㄱ'+'ㅅ', 'ㄴ'+'ㅈ'), that do not, and one that is no       *)
(* final ('ㄸ'); vowels that combine ('ㅗ'+'ㅏ', 'ㅗ'+'ㅣ') and that do not.    *)
(* Texts are the inputs of 2..MaxTextLen characters over TextChars.        *)
(***************************************************************************)
\* 'ㄱ', 'ㄴ', 'ㄸ', 'ㅅ', 'ㅇ', 'ㅈ'
KeyConsonants == {12593, 12596, 12600, 12613, 12615, 12616}

\* 'ㅏ', 'ㅗ', 'ㅣ'
KeyVowels == {12623, 12631, 12643}

MaxTextLen == 2

\* 'ㄴ', 'ㅏ', 'a'
TextChars == {12596, 12623, 97}

Texts == UNION { [1..n -> TextChars] : n \in 2..MaxTextLen }

Keys == { <<c>> : c \in KeyConsonants \cup KeyVowels \cup NonKoreanChars \cup ArrowChars }

Inputs == Keys \cup {ArrowSequence} \cup Texts

ProcessInput ==
    \E tid \in TerminalIds, text \in Inputs :
        KoreanIME_process_input(tid, text) /\ UNCHANGED <<typed, mgr_vars, io_vars>>

Next == ProcessInput \/ FinalizeComposition \/ HandleBackspace \/ RemoveTerminal

Spec == Init /\ [][Next]_vars

(***************************************************************************)
(* SpecAllJamo: any sequence of the four operations over every jamo, by a  *)
(* caller that drops what process_input returns (as the tests' set-up      *)
(* calls do), so that the states are the composition states alone.         *)
(***************************************************************************)
AllKeys == { <<c>> : c \in Consonants \cup Vowels \cup NonKoreanChars \cup ArrowChars }

\* process_input by a caller that drops what it returns
KoreanIME_process_input_dropped(terminal_id, input_text) ==
    /\ ~panicked
    /\ LET r == process_input(get_or_create_state(terminal_id), input_text)
       IN  /\ terminal_states' = put_state(terminal_id, r.state)
           /\ panicked' = r.panic
    /\ op' = "process_input"
    /\ inp' = <<>>
    /\ result' = <<>>
    /\ still_composing' = FALSE
    /\ preview' = None
    /\ consumed' = FALSE
    /\ completed' = None

ProcessInputDropped ==
    \E tid \in TerminalIds, text \in AllKeys \cup {ArrowSequence} :
        /\ KoreanIME_process_input_dropped(tid, text)
        /\ UNCHANGED <<typed, mgr_vars, io_vars>>

NextAllJamo ==
    ProcessInputDropped \/ FinalizeComposition \/ HandleBackspace \/ RemoveTerminal

SpecAllJamo == Init /\ [][NextAllJamo]_vars

(***************************************************************************)
(* SpecTyping: a fresh session on which one syllable is typed a jamo at a  *)
(* time (initial, medial, then perhaps a final), each a process_input call *)
(* of its own, and then interrupted by a non-Korean character.             *)
(***************************************************************************)
Type(c) ==
    /\ KoreanIME_process_input(0, <<c>>)
    /\ typed' = Append(typed, c)
    /\ UNCHANGED <<mgr_vars, io_vars>>

TypeInitial == typed = <<>> /\ \E c \in Consonants : Type(c)

TypeMedial == Len(typed) = 1 /\ \E v \in Vowels : Type(v)

TypeFinal == Len(typed) = 2 /\ is_vowel(typed[2]) /\ \E f \in Consonants : Type(f)

TypeInterrupt ==
    /\ Len(typed) \in {2, 3}
    /\ is_korean_jamo(typed[Len(typed)])
    /\ \E x \in NonKoreanChars : Type(x)

NextTyping == TypeInitial \/ TypeMedial \/ TypeFinal \/ TypeInterrupt

SpecTyping == Init /\ [][NextTyping]_vars

(***************************************************************************)
(* What the claims speak of.                                               *)
(***************************************************************************)
\* the composition state of terminal 0, the terminal every action uses
HasState == 0 \in DOMAIN terminal_states

Cur == terminal_states[0]

SlotNames == {"chosung", "jungsung", "jongsung"}

Occupied(s) == { k \in SlotNames : IsSome(s[k]) }

\* the slot a backspace is to remove: the final, else the medial, else the initial
TopSlot(s) ==
    IF IsSome(s.jongsung) THEN "jongsung"
    ELSE IF IsSome(s.jungsung) THEN "jungsung" ELSE "chosung"

Idle == [chosung |-> None, jungsung |-> None, jongsung |-> None, is_composing |-> FALSE]

\* the state that holds only the initial c
OnlyInitial(c) ==
    [chosung |-> Some(c), jungsung |-> None, jongsung |-> None, is_composing |-> TRUE]

\* the standard Hangul formula 0xAC00 + (initial*21 + medial)*28 + final for the
\* initial c, the medial v and the optional final f; None when one of them has no
\* index of its kind
Syllable(c, v, f) ==
    LET ci == get_chosung_index(c)
        vi == get_jungsung_index(v)
        fi == IF IsSome(f) THEN get_jongsung_index(Unwrap(f)) ELSE Some(0)
    IN  IF IsSome(ci) /\ IsSome(vi) /\ IsSome(fi)
        THEN Some(44032 + (Unwrap(ci) * 21 + Unwrap(vi)) * 28 + Unwrap(fi))
        ELSE None

\* the syllable of a state whose initial and medial are occupied
SyllableOfState(s) == Syllable(Unwrap(s.chosung), Unwrap(s.jungsung), s.jongsung)

\* the step is a process_input call of the one character ch
KeyStep(ch) == op' = "process_input" /\ inp' = <<ch>>

(***************************************************************************)
(* C1 (SpecTyping).  For every initial c, medial v and optional single     *)
(* final f, typing c, v (and f) one at a time on a fresh session commits   *)
(* nothing and stays composing at every step; the preview after the last   *)
(* jamo is 0xAC00 + (index(c)*21 + index(v))*28 + index(f); and the commit *)
(* text of a following non-Korean character starts with that code point.   *)
(***************************************************************************)
IsFinal(ch) == is_consonant(ch) /\ IsSome(get_jongsung_index(ch))

C1_SyllableFormula ==
    LET n == Len(typed)
    IN  /\ n = 1 => result = <<>> /\ still_composing
        /\ n = 2 => /\ result = <<>>
                    /\ still_composing
                    /\ preview = Syllable(typed[1], typed[2], None)
                    /\ IsSome(preview)
        /\ (n = 3 /\ IsFinal(typed[3])) =>
                    /\ result = <<>>
                    /\ still_composing
                    /\ preview = Syllable(typed[1], typed[2], Some(typed[3]))
                    /\ IsSome(preview)
        /\ (n = 3 /\ ~is_korean_jamo(typed[3])) =>
                    /\ result # <<>>
                    /\ Some(result[1]) = Syllable(typed[1], typed[2], None)
        /\ (n = 4 /\ IsFinal(typed[3])) =>
                    /\ result # <<>>
                    /\ Some(result[1]) = Syllable(typed[1], typed[2], Some(typed[3]))

\* 'ㅎ', 'ㅣ', 'ㅎ' and CR commit U+D7A3, the last syllable of the block
C1_Witness == typed = <<12622, 12643, 12622, 13>> /\ result = <<55203>>

(***************************************************************************)
(* C2 (SpecAllJamo).  In every reachable composition state the final slot  *)
(* is occupied only if the medial is, the medial only if the initial is,   *)
(* and is_composing is true exactly when the initial is occupied.          *)
(***************************************************************************)
C2_SlotInvariant ==
    \A t \in DOMAIN terminal_states :
        LET s == terminal_states[t]
        IN  /\ IsSome(s.jongsung) => IsSome(s.jungsung)
            /\ IsSome(s.jungsung) => IsSome(s.chosung)
            /\ s.is_composing <=> IsSome(s.chosung)

\* a backspace has emptied a state that held an initial only
C2_Witness == op = "handle_backspace" /\ consumed /\ HasState /\ Cur = Idle

(***************************************************************************)
(* C3 (SpecAllJamo).  handle_backspace on a non-idle state returns true    *)
(* and leaves exactly one slot fewer occupied (the final, else the medial, *)
(* else the initial, whose removal gives Idle), the other slots as they    *)
(* were; on an idle or absent state it returns false and changes nothing.  *)
(***************************************************************************)
C3_Backspace ==
    [][ op' = "handle_backspace" =>
          IF HasState /\ Occupied(Cur) # {}
          THEN /\ consumed'
               /\ HasState'
               /\ Occupied(Cur') = Occupied(Cur) \ {TopSlot(Cur)}
               /\ \A k \in Occupied(Cur') : Cur'[k] = Cur[k]
               /\ Occupied(Cur') = {} => Cur' = Idle
          ELSE /\ ~consumed'
               /\ terminal_states' = terminal_states ]_vars

\* a backspace has removed the final of a full syllable
C3_Witness ==
    /\ op = "handle_backspace" /\ consumed /\ HasState
    /\ Occupied(Cur) = {"chosung", "jungsung"}

(***************************************************************************)
(* C4 (Spec).  A consonant that arrives while the final slot is occupied   *)
(* and does not combine with the final commits exactly the current         *)
(* syllable (initial, medial and final by the Hangul formula), and the new *)
(* state holds only the new consonant as initial, composing.               *)
(***************************************************************************)
C4_CommitOnThirdConsonant ==
    [][ \A ch \in KeyConsonants :
          ( /\ KeyStep(ch)
            /\ HasState
            /\ IsSome(Cur.jongsung)
            /\ ~IsSome(combine_consonants(Unwrap(Cur.jongsung), ch)) )
          => /\ ~panicked'
             /\ IsSome(SyllableOfState(Cur))
             /\ result' = SyllableOfState(Cur)
             /\ Cur' = OnlyInitial(ch)
             /\ still_composing' ]_vars

(***************************************************************************)
(* C5 (Spec).  A consonant that arrives while the final slot is occupied   *)
(* and combines with the final commits nothing, stays composing, and       *)
(* replaces the final by the compound, the preview being the syllable that *)
(* carries the compound final; after 'ㄱ', 'ㅏ', 'ㄱ', 'ㅅ' on a fresh        *)
(* session the preview is U+AC09.                                          *)
(***************************************************************************)
C5_CompoundFinal ==
    [][ \A ch \in KeyConsonants :
          ( /\ KeyStep(ch)
            /\ HasState
            /\ IsSome(Cur.jongsung)
            /\ IsSome(combine_consonants(Unwrap(Cur.jongsung), ch)) )
          => /\ ~panicked'
             /\ result' = <<>>
             /\ still_composing'
             /\ Cur' = [Cur EXCEPT !.jongsung =
                                      combine_consonants(Unwrap(Cur.jongsung), ch)]
             /\ IsSome(preview')
             /\ preview' = SyllableOfState(Cur')
             /\ (Cur = [chosung |-> Some(12593), jungsung |-> Some(12623),
                        jongsung |-> Some(12593), is_composing |-> TRUE] /\ ch = 12613)
                => preview' = Some(44041) ]_vars

(***************************************************************************)
(* C6 (Spec).  A vowel that arrives while initial and medial are occupied  *)
(* and the final is empty: if it combines with the medial, the medial is   *)
(* replaced by the compound, nothing is committed and composing stays true *)
(* ('ㄱ', 'ㅗ', 'ㅏ' previews U+ACFC); otherwise the current syllable is      *)
(* committed, the state becomes Idle, and the vowel follows the syllable   *)
(* in the commit text.                                                     *)
(***************************************************************************)
C6_SecondVowel ==
    [][ \A ch \in KeyVowels :
          ( /\ KeyStep(ch)
            /\ HasState
            /\ IsSome(Cur.chosung) /\ IsSome(Cur.jungsung) /\ ~IsSome(Cur.jongsung) )
          => /\ ~panicked'
             /\ IF IsSome(combine_vowels(Unwrap(Cur.jungsung), ch))
                THEN /\ result' = <<>>
                     /\ still_composing'
                     /\ Cur' = [Cur EXCEPT !.jungsung =
                                              combine_vowels(Unwrap(Cur.jungsung), ch)]
                     /\ (Cur = [chosung |-> Some(12593), jungsung |-> Some(12631),
                                jongsung |-> None, is_composing |-> TRUE] /\ ch = 12623)
                        => preview' = Some(44284)
                ELSE /\ IsSome(SyllableOfState(Cur))
                     /\ result' = SyllableOfState(Cur) \o <<ch>>
                     /\ Cur' = Idle ]_vars

(***************************************************************************)
(* C7 (SpecTyping).  On a fresh session 'ㄱ', 'ㅏ', 'ㄴ', each a call of its  *)
(* own, commit nothing, and the preview goes from none to 'ㄱ' to U+AC00    *)
(* to U+AC04: the third input is staged as the final and is previewed at   *)
(* once.                                                                   *)
(***************************************************************************)
C7_PreviewProgression ==
    /\ typed = <<>> => preview = None
    /\ typed = <<12593>> => result = <<>> /\ preview = Some(12593)
    /\ typed = <<12593, 12623>> => result = <<>> /\ preview = Some(44032)
    /\ typed = <<12593, 12623, 12596>> =>
          /\ result = <<>>
          /\ Cur.jongsung = Some(12596)
          /\ preview = Some(44036)

C7_Witness == typed = <<12593, 12623, 12596>> /\ preview = Some(44036)

\* C7 as first stated: the third input is staged as the final, and the preview
\* is not yet U+AC04 after it
C7_Original ==
    /\ typed = <<>> => preview = None
    /\ typed = <<12593>> => result = <<>> /\ preview = Some(12593)
    /\ typed = <<12593, 12623>> => result = <<>> /\ preview = Some(44032)
    /\ typed = <<12593, 12623, 12596>> =>
          /\ result = <<>>
          /\ Cur.jongsung = Some(12596)
          /\ preview # Some(44036)

(***************************************************************************)
(* C8 (Spec).  A vowel that arrives while initial, medial and final are    *)
(* all occupied commits exactly the syllable of the old initial and old    *)
(* medial with no final, and the new state has the old final as initial,   *)
(* the vowel as medial, no final, composing.                               *)
(***************************************************************************)
C8_FinalMigrates ==
    [][ \A ch \in KeyVowels :
          ( /\ KeyStep(ch)
            /\ HasState
            /\ IsSome(Cur.chosung) /\ IsSome(Cur.jungsung) /\ IsSome(Cur.jongsung) )
          => /\ ~panicked'
             /\ IsSome(SyllableOfState([Cur EXCEPT !.jongsung = None]))
             /\ result' = SyllableOfState([Cur EXCEPT !.jongsung = None])
             /\ Cur' = [chosung |-> Cur.jongsung, jungsung |-> Some(ch),
                        jongsung |-> None, is_composing |-> TRUE]
             /\ still_composing' ]_vars

(***************************************************************************)
(* C9 (Spec).  A consonant that arrives while only the initial is occupied *)
(* commits the pending bare initial, and the new state holds the new       *)
(* consonant as initial, composing.                                        *)
(***************************************************************************)
C9_BareInitialCommitted ==
    [][ \A ch \in KeyConsonants :
          ( /\ KeyStep(ch)
            /\ HasState
            /\ IsSome(Cur.chosung) /\ ~IsSome(Cur.jungsung) )
          => /\ ~panicked'
             /\ result' = Cur.chosung
             /\ Cur' = OnlyInitial(ch)
             /\ still_composing' ]_vars

(***************************************************************************)
(* C10 (Spec).  A non-Korean character that arrives while composing        *)
(* commits the composed syllable if the medial is occupied and the bare    *)
(* initial otherwise, leaves the state Idle, and follows the committed     *)
(* character in the commit text unless it is CR or LF, which is swallowed. *)
(***************************************************************************)
C10_InterruptCommits ==
    [][ \A ch \in NonKoreanChars :
          ( /\ KeyStep(ch)
            /\ HasState
            /\ Cur.is_composing )
          => /\ ~panicked'
             /\ Cur' = Idle
             /\ ~still_composing'
             /\ LET committed == IF IsSome(Cur.jungsung)
                                 THEN SyllableOfState(Cur) ELSE Cur.chosung
                IN  /\ IsSome(committed)
                    /\ result' = committed \o (IF ch \in {13, 10} THEN <<>> ELSE <<ch>>) ]_vars

(***************************************************************************)
(* C11 (Spec).  An arrow key in either encoding (a text that starts with   *)
(* ESC '[', or one of U+F700..U+F703) that arrives while composing returns *)
(* exactly the text that a non-Korean interrupt commits in the same state  *)
(* (the carriage return is the interrupt that adds nothing of its own),    *)
(* leaves the state Idle, and returns no character of the arrow key.       *)
(***************************************************************************)
ArrowInputs == {ArrowSequence} \cup { <<c>> : c \in ArrowChars }

C11_ArrowCommitsLikeInterrupt ==
    [][ \A arrow \in ArrowInputs :
          ( /\ op' = "process_input" /\ inp' = arrow
            /\ HasState
            /\ Cur.is_composing )
          => /\ ~panicked'
             /\ result' = process_input(Cur, <<13>>).result
             /\ Cur' = Idle
             /\ \A i \in 1..Len(result') : result'[i] \notin {27, 91, 65} \cup ArrowChars ]_vars

(***************************************************************************)
(* The scrollback buffer (TerminalSession.content, a String).              *)
(* A String is kept as its runs: a run is n equal-width characters, either *)
(* n newlines (one byte each) or n other characters of w UTF-8 bytes each. *)
(* Neighbouring runs of one kind are merged, so that equal strings have    *)
(* equal runs.  Offsets and lengths are in bytes, as str's are.            *)
(***************************************************************************)
Chars(w, n) == [w |-> w, n |-> n, nl |-> FALSE]

Newlines(n) == [w |-> 1, n |-> n, nl |-> TRUE]

String_new == <<>>

RunBytes(r) == r.w * r.n

RECURSIVE String_len(_)
String_len(s) == IF s = <<>> THEN 0 ELSE RunBytes(Head(s)) + String_len(Tail(s))

SameKind(a, b) == a.w = b.w /\ a.nl = b.nl

\* String::push_str
push_str(s, text) ==
    IF s = <<>> THEN text
    ELSE IF text = <<>> THEN s
    ELSE LET a == s[Len(s)]
             b == Head(text)
         IN  IF SameKind(a, b)
             THEN SubSeq(s, 1, Len(s) - 1) \o <<[a EXCEPT !.n = a.n + b.n]>> \o Tail(text)
             ELSE s \o text

\* str::is_char_boundary
RECURSIVE is_char_boundary(_, _)
is_char_boundary(s, index) ==
    IF index = 0 THEN TRUE
    ELSE IF s = <<>> THEN FALSE
    ELSE IF index >= RunBytes(Head(s))
         THEN is_char_boundary(Tail(s), index - RunBytes(Head(s)))
         ELSE index % Head(s).w = 0

\* the byte offset in s of the first newline at or after offset from, where
\* base is the offset of s itself: Option<usize>
RECURSIVE find_newline_from(_, _, _)
find_newline_from(s, from, base) ==
    IF s = <<>> THEN None
    ELSE IF from >= RunBytes(Head(s))
         THEN find_newline_from(Tail(s), from - RunBytes(Head(s)), base + RunBytes(Head(s)))
         ELSE IF Head(s).nl
              THEN Some(base + from)
              ELSE find_newline_from(Tail(s), 0, base + RunBytes(Head(s)))

\* s[split_pos..].find('\n'): relative to split_pos
find_newline(s, split_pos) ==
    LET at == find_newline_from(s, split_pos, 0)
    IN  IF IsSome(at) THEN Some(Unwrap(at) - split_pos) ELSE None

\* String::drain(0..end), end on a char boundary
RECURSIVE drain_front(_, _)
drain_front(s, end) ==
    IF end = 0 \/ s = <<>> THEN s
    ELSE IF end >= RunBytes(Head(s))
         THEN drain_front(Tail(s), end - RunBytes(Head(s)))
         ELSE <<[Head(s) EXCEPT !.n = Head(s).n - (end \div Head(s).w)]>> \o Tail(s)

HighWaterMark == 50000

LowWaterMark == 40000

\* content_guard.push_str(&text) and the trim that follows it; the slice
\* content_guard[split_pos..] panics off a char boundary
append_and_trim(content, text) ==
    LET pushed == push_str(content, text)
    IN  IF String_len(pushed) > HighWaterMark
        THEN LET split_pos == String_len(pushed) - LowWaterMark
             IN  IF ~is_char_boundary(pushed, split_pos)
                 THEN [content |-> pushed, panic |-> TRUE]
                 ELSE LET newline_pos == find_newline(pushed, split_pos)
                      IN  IF IsSome(newline_pos)
                          THEN [content |-> drain_front(pushed, split_pos + Unwrap(newline_pos) + 1),
                                panic |-> FALSE]
                          ELSE [content |-> pushed, panic |-> FALSE]
        ELSE [content |-> pushed, panic |-> FALSE]

(***************************************************************************)
(* TerminalSession and TerminalManager.  A size is <<columns, rows>>.      *)
(* A session holds its recorded size and its scrollback; its liveness flag *)
(* is a shared Arc and is kept apart, for every session created so far, as *)
(* is the engine behind its Notifier: whether the event loop still runs    *)
(* (a send on the Notifier's channel fails once it has ended), whether     *)
(* Msg::Shutdown was sent on it, the window size last notified to the      *)
(* child process, the grid's size and the bytes last written to the child. *)
(***************************************************************************)
TerminalSize_default == <<120, 40>>

TerminalSession_new == [size |-> TerminalSize_default, content |-> String_new]

\* the engine as TerminalSession::new leaves it: it has been sent "\n"
Engine_new ==
    [alive |-> TRUE, shutdown_sent |-> FALSE, pty_size |-> TerminalSize_default,
     grid_size |-> TerminalSize_default, input |-> <<10>>]

\* HashMap::insert, HashMap::remove
insert(map, key, value) ==
    [k \in (DOMAIN map) \cup {key} |-> IF k = key THEN value ELSE map[k]]

remove(map, key) == [k \in (DOMAIN map) \ {key} |-> map[k]]

Manager ==
    [sessions |-> sessions, is_running |-> is_running, engine |-> engine,
     active_session |-> active_session]

\* a stop that leaves the liveness flag as it is
stop_keeps_flag(m, session_id) ==
    [m EXCEPT !.engine[session_id].shutdown_sent = TRUE]

\* TerminalSession::stop, on a session taken out of m's registry
stop(m, session_id) ==
    [m EXCEPT !.is_running[session_id] = FALSE,
              !.engine[session_id].shutdown_sent = TRUE]

\* an iterator that yields nothing
keys_next_none(map) == {None}

\* sessions.keys().next().copied(): a HashMap iterates in an arbitrary order
keys_next(map) ==
    IF DOMAIN map = {} THEN {None} ELSE { Some(k) : k \in DOMAIN map }

\* a close_session that does not look the id up
close_session_without_lookup(m, session_id) ==
    { [m EXCEPT !.sessions = remove(m.sessions, session_id), !.active_session = None] }

\* the managers that close_session(session_id) can leave
close_session(m, session_id) ==
    IF session_id \in DOMAIN m.sessions
    THEN LET stopped == stop([m EXCEPT !.sessions = remove(m.sessions, session_id)],
                             session_id)
         IN  IF m.active_session = Some(session_id)
             THEN { [stopped EXCEPT !.active_session = a] : a \in keys_next(stopped.sessions) }
             ELSE {stopped}
    ELSE {m}

\* the managers that closing every id of ids, in any order, can leave
RECURSIVE close_all(_, _)
close_all(ms, ids) ==
    IF ids = {} THEN ms
    ELSE UNION { close_all(UNION { close_session(m, id) : m \in ms }, ids \ {id}) : id \in ids }

\* a sweep that collects the sessions that are alive
dead_sessions_inverted(m) == { id \in DOMAIN m.sessions : m.is_running[id] }

\* the ids cleanup_dead_sessions collects
dead_sessions(m) == { id \in DOMAIN m.sessions : ~m.is_running[id] }

cleanup_dead_sessions(m) == close_all({m}, dead_sessions(m))

\* a resize that sets the recorded size of every registered session
resize_every_session(m, session_id, cols, rows) ==
    [m |-> [m EXCEPT !.sessions = [id \in DOMAIN m.sessions |->
                                      [m.sessions[id] EXCEPT !.size = <<cols, rows>>]]],
     ret |-> "Ok"]

\* TerminalSession::resize: the recorded size is written first, and a failed
\* send returns before the grid is resized
resize(m, session_id, cols, rows) ==
    LET sized == [m EXCEPT !.sessions[session_id].size = <<cols, rows>>]
    IN  IF m.engine[session_id].alive
        THEN [m |-> [sized EXCEPT !.engine[session_id].pty_size = <<cols, rows>>,
                                  !.engine[session_id].grid_size = <<cols, rows>>],
              ret |-> "Ok"]
        ELSE [m |-> sized, ret |-> "Err"]

\* TerminalSession::write: Notifier::notify has no result to return
write(m, session_id, data) ==
    IF m.engine[session_id].alive
    THEN [m EXCEPT !.engine[session_id].input = data]
    ELSE m

(***************************************************************************)
(* The manager's operations as actions.  Each leaves the input method's    *)
(* variables alone.                                                        *)
(***************************************************************************)
\* the manager's fields become m's
SetManager(m) ==
    /\ sessions' = m.sessions
    /\ is_running' = m.is_running
    /\ engine' = m.engine
    /\ active_session' = m.active_session

Call(id, kind, data) == [id |-> id, kind |-> kind, data |-> data]

MaxSessionIds == 3

\* every id a session can get, and one that no session ever gets
SessionIds == 0..MaxSessionIds

\* an id taken from the size of the registry
id_from_registry_size == Cardinality(DOMAIN sessions)

\* SESSION_ID_COUNTER.fetch_add(1, SeqCst): the value before the addition
fetch_add == SESSION_ID_COUNTER

\* TerminalSession::new fails (created = FALSE) when the PTY, the event loop
\* or the subscription thread cannot be set up; the id is drawn before that
TerminalManager_create_new_session(created) ==
    /\ ~panicked
    /\ SESSION_ID_COUNTER < MaxSessionIds
    /\ LET session_id == fetch_add
       IN  /\ SESSION_ID_COUNTER' = SESSION_ID_COUNTER + 1
           /\ arg' = Call(session_id, "", <<>>)
           /\ IF created
              THEN /\ sessions' = insert(sessions, session_id, TerminalSession_new)
                   /\ is_running' = insert(is_running, session_id, TRUE)
                   /\ engine' = insert(engine, session_id, Engine_new)
                   /\ active_session' = IF active_session = None
                                        THEN Some(session_id) ELSE active_session
                   /\ event_source' = insert(event_source, session_id, <<>>)
                   /\ emitted' = insert(emitted, session_id, 0)
                   /\ worker' = insert(worker, session_id, "running")
                   /\ received' = insert(received, session_id, <<>>)
                   /\ delivered' = insert(delivered, session_id, String_new)
                   /\ ret' = "Ok"
              ELSE /\ ret' = "Err"
                   /\ UNCHANGED <<sessions, is_running, engine, active_session>>
                   /\ UNCHANGED <<event_source, emitted, worker, received, delivered>>
    /\ op' = "create_new_session"
    /\ UNCHANGED <<ime_vars, sent, view_vars, color_vars, panicked, pty_writes>>
    /\ UNCHANGED <<pty_events, consumer>>

\* a set_active_session that does not look the id up
TerminalManager_set_active_session_unchecked(session_id) ==
    /\ ~panicked
    /\ active_session' = Some(session_id)
    /\ ret' = "Ok"
    /\ op' = "set_active_session"
    /\ arg' = Call(session_id, "", <<>>)
    /\ UNCHANGED <<sessions, is_running, engine, SESSION_ID_COUNTER>>
    /\ UNCHANGED <<ime_vars, io_vars, panicked, pty_writes>>

TerminalManager_set_active_session(session_id) ==
    /\ ~panicked
    /\ IF session_id \in DOMAIN sessions
       THEN active_session' = Some(session_id) /\ ret' = "Ok"
       ELSE ret' = "Err" /\ UNCHANGED active_session
    /\ op' = "set_active_session"
    /\ arg' = Call(session_id, "", <<>>)
    /\ UNCHANGED <<sessions, is_running, engine, SESSION_ID_COUNTER>>
    /\ UNCHANGED <<ime_vars, io_vars, panicked, pty_writes>>

TerminalManager_close_session(session_id) ==
    /\ ~panicked
    /\ \E m \in close_session(Manager, session_id) : SetManager(m)
    /\ op' = "close_session"
    /\ arg' = Call(session_id, "", <<>>)
    /\ ret' = "Ok"
    /\ delivered' = [id \in DOMAIN sessions' |-> delivered[id]]
    /\ UNCHANGED <<SESSION_ID_COUNTER, ime_vars, panicked, pty_writes>>
    /\ UNCHANGED <<view_vars, color_vars, pipe_vars, sent>>

TerminalManager_write_to_session(session_id, data) ==
    /\ ~panicked
    /\ IF session_id \in DOMAIN sessions
       THEN SetManager(write(Manager, session_id, data))
       ELSE UNCHANGED <<sessions, is_running, engine, active_session>>
    /\ op' = "write_to_session"
    /\ arg' = Call(session_id, "", data)
    /\ ret' = "Ok"
    /\ UNCHANGED <<SESSION_ID_COUNTER, ime_vars, io_vars, panicked, pty_writes>>

TerminalManager_resize_session(session_id, cols, rows) ==
    /\ ~panicked
    /\ IF session_id \in DOMAIN sessions
       THEN LET r == resize(Manager, session_id, cols, rows)
            IN  SetManager(r.m) /\ ret' = r.ret
       ELSE ret' = "Ok" /\ UNCHANGED <<sessions, is_running, engine, active_session>>
    /\ op' = "resize_session"
    /\ arg' = Call(session_id, "", <<cols, rows>>)
    /\ UNCHANGED <<SESSION_ID_COUNTER, ime_vars, io_vars, panicked, pty_writes>>

TerminalManager_cleanup_dead_sessions ==
    /\ ~panicked
    /\ \E m \in cleanup_dead_sessions(Manager) : SetManager(m)
    /\ op' = "cleanup_dead_sessions"
    /\ arg' = NoArg
    /\ ret' = "Ok"
    /\ delivered' = [id \in DOMAIN sessions' |-> delivered[id]]
    /\ UNCHANGED <<SESSION_ID_COUNTER, ime_vars, panicked, pty_writes>>
    /\ UNCHANGED <<view_vars, color_vars, pipe_vars, sent>>

\* kind is the Event's variant and data the text of a PtyWrite; that text is
\* a String, so from_utf8_lossy finds nothing to replace in it
TerminalManager_process_pty_event(session_id, kind, data) ==
    /\ ~panicked
    /\ IF kind = "PtyWrite" /\ session_id \in DOMAIN sessions
       THEN LET r == append_and_trim(sessions[session_id].content, data)
            IN  /\ sessions' = [sessions EXCEPT ![session_id].content = r.content]
                /\ panicked' = r.panic
                /\ delivered' = [delivered EXCEPT ![session_id] = push_str(@, data)]
                /\ UNCHANGED is_running
       ELSE IF kind = "Exit" /\ session_id \in DOMAIN sessions
       THEN /\ is_running' = [is_running EXCEPT ![session_id] = FALSE]
            /\ UNCHANGED <<sessions, panicked, delivered>>
       ELSE UNCHANGED <<sessions, is_running, panicked, delivered>>
    /\ op' = "process_pty_event"
    /\ arg' = Call(session_id, kind, data)
    /\ ret' = "Ok"
    /\ pty_writes' = IF kind = "PtyWrite" THEN pty_writes + 1 ELSE pty_writes
    /\ UNCHANGED <<engine, active_session, SESSION_ID_COUNTER, ime_vars>>
    /\ UNCHANGED <<view_vars, color_vars, pipe_vars, sent>>

\* the event loop of a session ends: its child process has exited, or it
\* has taken Msg::Shutdown off its channel
EventLoopEnds(session_id) ==
    /\ ~panicked
    /\ session_id \in DOMAIN engine
    /\ engine[session_id].alive
    /\ engine' = [engine EXCEPT ![session_id].alive = FALSE]
    /\ op' = "event_loop_ends"
    /\ arg' = Call(session_id, "", <<>>)
    /\ ret' = "Ok"
    /\ UNCHANGED <<sessions, is_running, active_session, SESSION_ID_COUNTER>>
    /\ UNCHANGED <<ime_vars, io_vars, panicked, pty_writes>>

(***************************************************************************)
(* SpecScrollback: one session is created and PtyWrite events reach it.    *)
(* The texts are a line of 9,999 bytes and its newline, 10,000 bytes with  *)
(* no newline, a newline followed by 40,000 bytes, a single byte, and a    *)
(* line of 3,333 three-byte characters and its newline.                    *)
(***************************************************************************)
OutputTexts ==
    { <<Chars(1, 9999), Newlines(1)>>,
      <<Chars(1, 10000)>>,
      <<Newlines(1), Chars(1, 40000)>>,
      <<Chars(1, 1)>>,
      <<Chars(3, 3333), Newlines(1)>> }

MaxPtyWrites == 6

CreateFirstSession ==
    /\ DOMAIN sessions = {}
    /\ TerminalManager_create_new_session(TRUE)

PtyWrite ==
    \E id \in DOMAIN sessions, text \in OutputTexts :
        /\ pty_writes < MaxPtyWrites
        /\ TerminalManager_process_pty_event(id, "PtyWrite", text)

NextScrollback == CreateFirstSession \/ PtyWrite

SpecScrollback == Init /\ [][NextScrollback]_vars

(***************************************************************************)
(* SpecManager: any sequence of creations (that succeed or fail), of       *)
(* set_active_session, close_session and cleanup_dead_sessions, with Exit  *)
(* and Title events arriving for the sessions created so far.              *)
(***************************************************************************)
CreateSession == \E created \in BOOLEAN : TerminalManager_create_new_session(created)

SetActiveSession == \E id \in SessionIds : TerminalManager_set_active_session(id)

CloseSession == \E id \in SessionIds : TerminalManager_close_session(id)

CleanupDeadSessions == TerminalManager_cleanup_dead_sessions

ExitOrTitle ==
    \E id \in SessionIds, kind \in {"Exit", "Title"} :
        /\ id < SESSION_ID_COUNTER
        /\ TerminalManager_process_pty_event(id, kind, <<>>)

NextManager ==
    \/ CreateSession \/ SetActiveSession \/ CloseSession
    \/ CleanupDeadSessions \/ ExitOrTitle

SpecManager == Init /\ [][NextManager]_vars

(***************************************************************************)
(* SpecSessions: up to MaxLiveSessions sessions are created, made active,  *)
(* closed, resized to 80x24, written "a" and sent the one-byte text "x" or *)
(* an Exit event, while their event loops may end.                         *)
(***************************************************************************)
MaxLiveSessions == 2

MaxSmallWrites == 1

CreateLiveSession ==
    /\ SESSION_ID_COUNTER < MaxLiveSessions
    /\ TerminalManager_create_new_session(TRUE)

WriteToSession == \E id \in SessionIds : TerminalManager_write_to_session(id, <<97>>)

ResizeSession == \E id \in SessionIds : TerminalManager_resize_session(id, 80, 24)

SmallWriteOrExit ==
    \E id \in SessionIds, kind \in {"PtyWrite", "Exit"} :
        /\ id < SESSION_ID_COUNTER
        /\ kind = "PtyWrite" => pty_writes < MaxSmallWrites
        /\ TerminalManager_process_pty_event(
               id, kind, IF kind = "PtyWrite" THEN <<Chars(1, 1)>> ELSE <<>>)

EngineEnds == \E id \in SessionIds : EventLoopEnds(id)

NextSessions ==
    \/ CreateLiveSession \/ SetActiveSession \/ CloseSession \/ WriteToSession
    \/ ResizeSession \/ SmallWriteOrExit \/ EngineEnds

SpecSessions == Init /\ [][NextSessions]_vars

(***************************************************************************)
(* SpecClients: what the manager's callers do to sessions whose event      *)
(* loops keep running: up to MaxLiveSessions sessions are created, made    *)
(* active, closed, resized to 80x24, written "a" and sent the text "x".    *)
(***************************************************************************)
SmallWrite ==
    \E id \in SessionIds :
        /\ id < SESSION_ID_COUNTER
        /\ pty_writes < MaxSmallWrites
        /\ TerminalManager_process_pty_event(id, "PtyWrite", <<Chars(1, 1)>>)

NextClients ==
    \/ CreateLiveSession \/ SetActiveSession \/ CloseSession \/ WriteToSession
    \/ ResizeSession \/ SmallWrite

SpecClients == Init /\ [][NextClients]_vars

(***************************************************************************)
(* SpecIsolation: the sessions created so far are closed, resized to       *)
(* 80x24, written "a" and sent the text "x", while 'ㄱ' is typed into the    *)
(* composition states kept under their ids and those states are removed.   *)
(***************************************************************************)
ComposeInSession ==
    \E id \in SessionIds :
        /\ id < SESSION_ID_COUNTER
        /\ KoreanIME_process_input_dropped(id, <<12593>>)
        /\ UNCHANGED <<typed, mgr_vars, io_vars>>

RemoveTerminalOfSession ==
    \E id \in SessionIds :
        /\ id < SESSION_ID_COUNTER
        /\ KoreanIME_remove_terminal(id)
        /\ UNCHANGED <<typed, mgr_vars, io_vars>>

CloseCreated ==
    \E id \in SessionIds : id < SESSION_ID_COUNTER /\ TerminalManager_close_session(id)

WriteToCreated ==
    \E id \in SessionIds :
        id < SESSION_ID_COUNTER /\ TerminalManager_write_to_session(id, <<97>>)

ResizeCreated ==
    \E id \in SessionIds :
        id < SESSION_ID_COUNTER /\ TerminalManager_resize_session(id, 80, 24)

NextIsolation ==
    \/ CreateLiveSession \/ CloseCreated \/ WriteToCreated \/ ResizeCreated
    \/ SmallWrite \/ ComposeInSession \/ RemoveTerminalOfSession

SpecIsolation == Init /\ [][NextIsolation]_vars

(***************************************************************************)
(* What the scrollback claims speak about.                                 *)
(***************************************************************************)
\* the bytes of the longest line of s, each line counted with its newline;
\* cur is the length of the line being read and best the longest so far
RECURSIVE longest_line_from(_, _, _)
longest_line_from(s, cur, best) ==
    LET max(a, b) == IF a >= b THEN a ELSE b
    IN  IF s = <<>> THEN max(cur, best)
        ELSE IF Head(s).nl
             THEN longest_line_from(Tail(s), 0, max(best, cur + 1))
             ELSE longest_line_from(Tail(s), cur + RunBytes(Head(s)), best)

LongestLine(s) == longest_line_from(s, 0, 0)

\* a PtyWrite event for a registered session has just been handled
OutputStep ==
    /\ op' = "process_pty_event"
    /\ arg'.kind = "PtyWrite"
    /\ arg'.id \in DOMAIN sessions

\* the buffer of that session before any trimming, and after the event
Pushed == push_str(sessions[arg'.id].content, arg'.data)

After == sessions'[arg'.id].content

\* the byte of s at offset index is a newline
NewlineAt(s, index) == index >= 0 /\ find_newline_from(s, index, 0) = Some(index)

(***************************************************************************)
(* C12 (SpecScrollback).  After every PtyWrite append the buffer is at     *)
(* most the 50,000-byte high-water mark plus the bytes of its longest line *)
(* long, and when the append trimmed the buffer, what remains starts on a  *)
(* line boundary: the bytes dropped end with a newline.                    *)
(***************************************************************************)
C12_ScrollbackBound ==
    [][ OutputStep =>
          /\ String_len(After) <= HighWaterMark + LongestLine(After)
          /\ After # Pushed =>
                LET dropped == String_len(Pushed) - String_len(After)
                IN  /\ dropped > 0
                    /\ After = drain_front(Pushed, dropped)
                    /\ NewlineAt(Pushed, dropped - 1) ]_vars

(***************************************************************************)
(* C13 (SpecScrollback).  When a PtyWrite append makes the buffer longer   *)
(* than 50,000 bytes, what is left is the suffix of that buffer that       *)
(* starts right after the first newline at or after offset length -        *)
(* 40,000; a buffer of 50,001 bytes whose first such newline is 9,999      *)
(* bytes past that offset is left with the 30,000 bytes after the newline. *)
(***************************************************************************)
C13_TrimAfterNewline ==
    [][ (OutputStep /\ String_len(Pushed) > HighWaterMark) =>
          LET split_pos == String_len(Pushed) - LowWaterMark
              dropped == String_len(Pushed) - String_len(After)
          IN  /\ ~panicked'
              /\ dropped > split_pos
              /\ NewlineAt(Pushed, dropped - 1)
              /\ find_newline_from(Pushed, split_pos, 0) = Some(dropped - 1)
              /\ After = drain_front(Pushed, dropped)
              /\ (String_len(Pushed) = 50001 /\ dropped - 1 = split_pos + 9999)
                    => String_len(After) = 30000 ]_vars

(***************************************************************************)
(* What the manager claims speak about.                                    *)
(***************************************************************************)
Registered == DOMAIN sessions

\* the ids that a session has held so far, registered or closed since
EverCreated == DOMAIN engine

Closed == EverCreated \ Registered

ManagerStep(name) == op' = name

(***************************************************************************)
(* C14 (SpecManager).  The id that a successful create_new_session returns *)
(* is greater than every id a session has held before, registered or       *)
(* closed since, whatever creations failed in between; so the ids returned *)
(* increase strictly and no id is held by two sessions.                    *)
(***************************************************************************)
C14_IdsNeverReused ==
    [][ (ManagerStep("create_new_session") /\ ret' = "Ok") =>
          /\ arg'.id \notin EverCreated
          /\ \A earlier \in EverCreated : earlier < arg'.id
          /\ DOMAIN sessions' = Registered \cup {arg'.id} ]_vars

\* session 2 is created after session 0 was closed and creation 1 failed
C14_Witness ==
    /\ op = "create_new_session" /\ ret = "Ok" /\ arg.id = 2
    /\ 0 \in Closed
    /\ 1 \notin EverCreated
    /\ 2 \in Registered

(***************************************************************************)
(* C15 (SpecManager).  In every reachable state the active-session pointer *)
(* is empty exactly when no session is registered, and when it is set it   *)
(* names a registered session.                                             *)
(***************************************************************************)
C15_ActivePointer ==
    /\ (active_session = None) <=> (Registered = {})
    /\ IsSome(active_session) => Unwrap(active_session) \in Registered

\* a session was closed, two remain registered and one of them is active
C15_Witness ==
    /\ op = "close_session"
    /\ arg.id \in Closed
    /\ Cardinality(Registered) = 2
    /\ IsSome(active_session)
    /\ Unwrap(active_session) > arg.id

(***************************************************************************)
(* C16 (SpecManager).  close_session(id) on a registered id sets that      *)
(* session's liveness flag to false, sends Msg::Shutdown on its engine     *)
(* handle and removes id, and nothing else, from the registry; if id was   *)
(* active the pointer then names a remaining session, or is empty when     *)
(* none remains, and if id was not active the pointer is unchanged.        *)
(***************************************************************************)
C16_CloseRegistered ==
    [][ (ManagerStep("close_session") /\ arg'.id \in Registered) =>
          LET id == arg'.id
          IN  /\ ret' = "Ok"
              /\ ~is_running'[id]
              /\ engine'[id].shutdown_sent
              /\ DOMAIN sessions' = Registered \ {id}
              /\ IF active_session = Some(id)
                 THEN IF DOMAIN sessions' = {}
                      THEN active_session' = None
                      ELSE /\ IsSome(active_session')
                           /\ Unwrap(active_session') \in DOMAIN sessions'
                 ELSE active_session' = active_session ]_vars

\* a session has been closed: its flag is false, and another one is active
C16_Witness ==
    /\ op = "close_session"
    /\ arg.id \in Closed
    /\ ~is_running[arg.id]
    /\ engine[arg.id].shutdown_sent
    /\ IsSome(active_session)

(***************************************************************************)
(* C17 (SpecClients).  close_session, write_to_session and                 *)
(* resize_session with an id that is not registered, never created or      *)
(* already closed, return Ok and leave the registry, the active pointer    *)
(* and every session's liveness flag, sizes and scrollback as they were.   *)
(***************************************************************************)
C17_UnknownIdIgnored ==
    [][ ( /\ op' \in {"close_session", "write_to_session", "resize_session"}
          /\ arg'.id \notin Registered )
          => /\ ret' = "Ok"
             /\ sessions' = sessions
             /\ active_session' = active_session
             /\ is_running' = is_running
             /\ engine' = engine ]_vars

\* a write or a resize named an id that was closed before, while a resized
\* session that was sent text is registered
C17_Witness ==
    /\ op \in {"write_to_session", "resize_session"}
    /\ arg.id \in Closed
    /\ \E id \in Registered :
          /\ sessions[id].size = <<80, 24>>
          /\ sessions[id].content # String_new

(***************************************************************************)
(* C18 (SpecClients).  set_active_session(id) with an id that is not       *)
(* registered returns an error and changes nothing; with a registered id   *)
(* it returns Ok, sets the active pointer to id and leaves the registry,   *)
(* the liveness flags, the sizes and the scrollback buffers as they were.  *)
(***************************************************************************)
C18_SetActive ==
    [][ ManagerStep("set_active_session") =>
          /\ sessions' = sessions
          /\ is_running' = is_running
          /\ engine' = engine
          /\ IF arg'.id \in Registered
             THEN ret' = "Ok" /\ active_session' = Some(arg'.id)
             ELSE ret' = "Err" /\ active_session' = active_session ]_vars

\* session 1 was made active while session 0, resized, is registered
C18_Witness ==
    /\ op = "set_active_session" /\ ret = "Ok" /\ arg.id = 1
    /\ active_session = Some(1)
    /\ 0 \in Registered
    /\ sessions[0].size = <<80, 24>>

(***************************************************************************)
(* C19 (SpecSessions).  After resize_session on a registered session,      *)
(* whether it returned Ok or Err, the session's recorded size, its grid's  *)
(* size and the window size last notified to its child process are equal.  *)
(***************************************************************************)
C19_SizesInSync ==
    [][ (ManagerStep("resize_session") /\ arg'.id \in Registered) =>
          LET id == arg'.id
          IN  /\ sessions'[id].size = engine'[id].grid_size
              /\ sessions'[id].size = engine'[id].pty_size ]_vars

(***************************************************************************)
(* C20 (SpecManager).  After cleanup_dead_sessions the registry holds      *)
(* exactly the sessions that were registered before it and whose liveness  *)
(* flag was true, each as it was.                                          *)
(***************************************************************************)
C20_CleanupSweeps ==
    [][ ManagerStep("cleanup_dead_sessions") =>
          /\ DOMAIN sessions' = { id \in Registered : is_running[id] }
          /\ \A id \in DOMAIN sessions' : sessions'[id] = sessions[id] /\ is_running'[id] ]_vars

\* after a sweep a session whose flag is true is registered and one whose
\* flag is false is not
C20_Witness ==
    /\ op = "cleanup_dead_sessions"
    /\ \E id \in Registered : is_running[id]
    /\ \E id \in Closed : ~is_running[id]

(***************************************************************************)
(* C21 (SpecScrollback).  process_pty_event leaves the registry's ids, the *)
(* active pointer and the engines alone.  For a registered id a PtyWrite   *)
(* event changes that session's scrollback only, to the old buffer with    *)
(* the event's text appended and, when that is longer than 50,000 bytes,   *)
(* its front dropped through the first newline at or after offset length   *)
(* - 40,000; an Exit event sets that session's liveness flag to false and  *)
(* changes nothing else; every other event, and every event for an id that *)
(* is not registered, changes nothing.                                     *)
(***************************************************************************)
C21_EventRouting ==
    [][ ManagerStep("process_pty_event") =>
          LET id == arg'.id
          IN  /\ DOMAIN sessions' = Registered
              /\ active_session' = active_session
              /\ engine' = engine
              /\ IF id \in Registered /\ arg'.kind = "PtyWrite"
                 THEN /\ ~panicked'
                      /\ is_running' = is_running
                      /\ \A other \in Registered \ {id} : sessions'[other] = sessions[other]
                      /\ sessions'[id].size = sessions[id].size
                      /\ IF String_len(Pushed) <= HighWaterMark
                         THEN After = Pushed
                         ELSE LET at == find_newline_from(
                                            Pushed, String_len(Pushed) - LowWaterMark, 0)
                              IN  /\ IsSome(at)
                                  /\ After = drain_front(Pushed, Unwrap(at) + 1)
                 ELSE IF id \in Registered /\ arg'.kind = "Exit"
                 THEN /\ sessions' = sessions
                      /\ is_running' = [is_running EXCEPT ![id] = FALSE]
                 ELSE /\ sessions' = sessions
                      /\ is_running' = is_running ]_vars

(***************************************************************************)
(* C22: with two sessions A and B registered, write_to_session,           *)
(* resize_session and close_session applied to A leave B registered with  *)
(* the same liveness flag, size and scrollback, and leave every           *)
(* composition state as it was; typing into, or removing, the composition *)
(* state of one terminal changes the state of no other terminal.          *)
(***************************************************************************)
C22_SessionIsolation ==
    [][/\ (/\ op' \in {"write_to_session", "resize_session", "close_session"}
           /\ arg'.id \in Registered)
          => /\ \A B \in Registered \ {arg'.id} :
                    /\ B \in DOMAIN sessions'
                    /\ sessions'[B] = sessions[B]
                    /\ is_running'[B] = is_running[B]
             /\ terminal_states' = terminal_states
       /\ op' \in {"process_input", "remove_terminal"}
          => /\ LET StateOf(states, t) ==
                        IF t \in DOMAIN states THEN Some(states[t]) ELSE None
                    Touched ==
                        {t \in (DOMAIN terminal_states) \cup (DOMAIN terminal_states') :
                            StateOf(terminal_states', t) # StateOf(terminal_states, t)}
                IN  Cardinality(Touched) <= 1
             /\ UNCHANGED <<sessions, is_running>>]_vars

\* session 1 has just been closed while session 0, resized to 80x24, holding
\* output and composing 'ㄱ', is still registered
C22_Witness ==
    /\ op = "close_session"
    /\ arg.id = 1
    /\ 1 \in Closed
    /\ 0 \in Registered
    /\ sessions[0].size = <<80, 24>>
    /\ String_len(sessions[0].content) > 0
    /\ 0 \in DOMAIN terminal_states
    /\ terminal_states[0].chosung = Some(12593)

(***************************************************************************)
(* SpecView: the terminal engine rewrites one line of the grid or moves    *)
(* the cursor, and the session's colored content is extracted, up to twice *)
(* between two changes of the grid.                                        *)
(***************************************************************************)
Cursors == {<<0, 0>>, <<1, 3>>}

\* the engine's thread handles output of the child process
TermUpdate ==
    /\ ~panicked
    /\ \/ \E l \in 1..ScreenLines, cells \in GridLines :
              /\ cells # grid.lines[l]
              /\ grid' = [grid EXCEPT !.lines[l] = cells]
       \/ \E cursor \in Cursors :
              /\ cursor # grid.cursor
              /\ grid' = [grid EXCEPT !.cursor = cursor]
    /\ extracted' = <<>>
    /\ op' = "term_update"
    /\ UNCHANGED <<ime_vars, sent, delivered, mgr_vars, color_vars, pipe_vars, panicked, last_content>>

\* TerminalSession::extract_colored_terminal_content
TerminalSession_extract_colored_terminal_content ==
    /\ ~panicked
    /\ Len(extracted) < 2
    /\ last_content' = sync(grid)
    /\ LET content == extract_colored_terminal_content(last_content')
       IN  /\ extracted' = Append(extracted, content)
           /\ panicked' = content.panic
    /\ op' = "extract_colored_terminal_content"
    /\ UNCHANGED <<ime_vars, sent, delivered, mgr_vars, color_vars, pipe_vars, grid>>

NextView == TermUpdate \/ TerminalSession_extract_colored_terminal_content

SpecView == Init /\ [][NextView]_vars

(***************************************************************************)
(* C23: two extractions of a grid that did not change between them return *)
(* the same segments (order, text, colours, line and column ranges), the   *)
(* same cursor position and the same totals.                               *)
(***************************************************************************)
C23_ExtractionIdempotent ==
    /\ Len(extracted) >= 1 => ~extracted[1].panic
    /\ Len(extracted) = 2 => ~extracted[2].panic /\ extracted[2] = extracted[1]

\* the segments of line number line (from 0) in what an extraction returned
SegmentsOfLine(content, line) ==
    SelectSeq(content.segments, LAMBDA seg : seg.line = line)

\* the cells of the grid's line number line that are no wide-character spacers
CellsWithoutSpacers(line) ==
    Cardinality({col \in 1..Columns :
                    "WIDE_CHAR_SPACER" \notin grid.lines[line + 1][col].flags})

RECURSIVE TotalChars(_)
TotalChars(segs) == IF segs = <<>> THEN 0 ELSE Len(Head(segs).text) + TotalChars(Tail(segs))

(***************************************************************************)
(* C24: for every grid, the segments the extraction emits for one line     *)
(* appear in increasing column order without overlap, and the characters   *)
(* of the line's segments are as many as the line's cells that are no      *)
(* wide-character spacers.                                                 *)
(***************************************************************************)
C24_SegmentsCoverLine ==
    \A k \in 1..Len(extracted) :
        /\ ~extracted[k].panic
        /\ \A line \in 0..(ScreenLines - 1) :
               LET segs == SegmentsOfLine(extracted[k], line)
               IN  /\ \A i \in 1..Len(segs) : segs[i].start_col < segs[i].end_col
                   /\ \A i \in 1..(Len(segs) - 1) : segs[i].end_col <= segs[i + 1].start_col
                   /\ TotalChars(segs) = CellsWithoutSpacers(line)

(***************************************************************************)
(* SpecColor: colours are turned into hex strings and parsed back, and hex *)
(* strings of six digits, with and without a leading '#', are parsed and   *)
(* turned into hex strings again.                                          *)
(***************************************************************************)
\* the values a channel takes
Channels == {0, 9, 171, 255}

\* the hex digits of the strings: '0', '9', 'c', 'E'
HexDigits == {48, 57, 99, 69}

\* two equal digits per channel, with and without the leading '#'
HexStrings ==
    LET six == {<<r, r, g, g, b, b>> : r \in HexDigits, g \in HexDigits, b \in HexDigits} \cup
               {<<48, r, 48, g, 48, b>> : r \in HexDigits, g \in HexDigits, b \in HexDigits}
    IN  six \cup {<<35>> \o h : h \in six}

\* Color::from_hex(&color.to_hex())
ColorToHex ==
    \E r \in Channels, g \in Channels, b \in Channels, a \in Channels :
        /\ ~panicked
        /\ color_in' = [r |-> r, g |-> g, b |-> b, a |-> a]
        /\ hex_in' = to_hex(color_in')
        /\ hex_out' = hex_in'
        /\ color_out' = from_hex(hex_in')
        /\ op' = "to_hex"
        /\ UNCHANGED <<ime_vars, sent, delivered, mgr_vars, view_vars, pipe_vars, panicked>>

\* Color::from_hex(hex) and, when it is Ok, to_hex() of the colour
HexToColor ==
    \E hex \in HexStrings :
        /\ ~panicked
        /\ hex_in' = hex
        /\ color_out' = from_hex(hex)
        /\ color_in' = IF IsSome(color_out') THEN Unwrap(color_out') ELSE color_in
        /\ hex_out' = IF IsSome(color_out') THEN to_hex(color_in') ELSE <<>>
        /\ op' = "from_hex"
        /\ UNCHANGED <<ime_vars, sent, delivered, mgr_vars, view_vars, pipe_vars, panicked>>

NextColor == ColorToHex \/ HexToColor

SpecColor == Init /\ [][NextColor]_vars

\* str::to_ascii_lowercase
to_ascii_lowercase(s) == [i \in 1..Len(s) |-> IF s[i] \in 65..90 THEN s[i] + 32 ELSE s[i]]

(***************************************************************************)
(* C25: from_hex(c.to_hex()) succeeds and returns c in all four channels,  *)
(* and from_hex(h).to_hex() of a six-digit hex string h, with or without a *)
(* leading '#', is the lower-case form of h with a leading '#'.            *)
(***************************************************************************)
C25_HexRoundTrip ==
    /\ op = "to_hex" => color_out = Some(color_in)
    /\ op = "from_hex" =>
           /\ IsSome(color_out)
           /\ hex_out = <<35>> \o to_ascii_lowercase(SelectSeq(hex_in, LAMBDA ch : ch # 35))

(***************************************************************************)
(* The event pipeline.  A session's engine hands its events to EventProxy, *)
(* whose channel the session's pty_event_subscription thread drains into   *)
(* the manager's shared channel; the pty_event_processor thread of the UI  *)
(* is the one consumer of that channel.  An event is [kind, seq, late]:    *)
(* seq numbers the events of its session in the order the engine emitted   *)
(* them, late says that the consumer had ended when it was emitted.        *)
(***************************************************************************)
\* the events that the engines emit, all sessions taken together
MaxEvents == 3

\* a receiver that hands out the event sent last
recv_newest(queue) ==
    [event |-> queue[Len(queue)], rest |-> SubSeq(queue, 1, Len(queue) - 1)]

\* mpsc::Receiver::recv on a channel that holds an event
recv(queue) == [event |-> Head(queue), rest |-> Tail(queue)]

\* EventProxy::send_event of the engine of session_id, while fewer than
\* MaxEvents events have been emitted
send_event(session_id, kind) ==
    /\ Cardinality({e \in (DOMAIN emitted) \X (1..MaxEvents) : e[2] <= emitted[e[1]]})
           < MaxEvents
    /\ event_source' = [event_source EXCEPT ![session_id] =
           Append(@, [kind |-> kind, seq |-> emitted[session_id] + 1,
                      late |-> consumer = "ended"])]
    /\ emitted' = [emitted EXCEPT ![session_id] = @ + 1]

\* the engine of a session wakes the UI up: its grid has changed
EngineWakeup(session_id) ==
    /\ ~panicked
    /\ session_id \in DOMAIN engine
    /\ engine[session_id].alive
    /\ send_event(session_id, "Wakeup")
    /\ op' = "send_event"
    /\ arg' = Call(session_id, "Wakeup", <<>>)
    /\ UNCHANGED <<ime_vars, sent, delivered, view_vars, color_vars, panicked>>
    /\ UNCHANGED <<sessions, is_running, engine, active_session, SESSION_ID_COUNTER>>
    /\ UNCHANGED <<ret, pty_writes, worker, pty_events, consumer, received>>

\* the child process of a session exits: its engine emits Exit and ends
ChildExits(session_id) ==
    /\ ~panicked
    /\ session_id \in DOMAIN engine
    /\ engine[session_id].alive
    /\ send_event(session_id, "Exit")
    /\ engine' = [engine EXCEPT ![session_id].alive = FALSE]
    /\ op' = "send_event"
    /\ arg' = Call(session_id, "Exit", <<>>)
    /\ UNCHANGED <<ime_vars, sent, delivered, view_vars, color_vars, panicked>>
    /\ UNCHANGED <<sessions, is_running, active_session, SESSION_ID_COUNTER>>
    /\ UNCHANGED <<ret, pty_writes, worker, pty_events, consumer, received>>

\* the engine of a stopped session takes Msg::Shutdown off its channel and
\* ends, emitting nothing
ShutdownTaken(session_id) ==
    /\ session_id \in DOMAIN engine
    /\ engine[session_id].shutdown_sent
    /\ EventLoopEnds(session_id)

\* one turn of the pty_event_subscription loop in which recv() returns an
\* event.  On a channel that is empty and connected recv() blocks.  On one
\* that is empty and disconnected (every Sender is gone: the Term of the
\* session, dropped with its registry entry, and the engine's thread each
\* hold one) it returns Err, which `if let Ok` skips, and the loop turns
\* again with nothing changed.
Worker(session_id) ==
    /\ ~panicked
    /\ session_id \in DOMAIN worker
    /\ worker[session_id] = "running"
    /\ event_source[session_id] # <<>>
    /\ LET r == recv(event_source[session_id])
       IN  /\ event_source' = [event_source EXCEPT ![session_id] = r.rest]
           /\ IF consumer = "ended"
              THEN /\ worker' = [worker EXCEPT ![session_id] = "ended"]
                   /\ UNCHANGED pty_events
              ELSE /\ pty_events' = Append(pty_events, <<session_id, r.event>>)
                   /\ worker' = [worker EXCEPT ![session_id] =
                                    IF r.event.kind = "Exit" THEN "ended" ELSE @]
    /\ op' = "pty_event_subscription"
    /\ arg' = Call(session_id, "", <<>>)
    /\ UNCHANGED <<ime_vars, sent, delivered, view_vars, color_vars, panicked>>
    /\ UNCHANGED <<sessions, is_running, engine, active_session, SESSION_ID_COUNTER>>
    /\ UNCHANGED <<ret, pty_writes, emitted, consumer, received>>

\* one turn of the pty_event_processor loop.  The manager keeps a Sender of
\* the shared channel, so recv() never returns Err.  A Wakeup leads to an
\* extraction when try_lock() gets the manager and the session is in its
\* registry; an Exit ends the loop.
Consumer(lock_free) ==
    /\ ~panicked
    /\ consumer = "running"
    /\ pty_events # <<>>
    /\ LET r == recv(pty_events)
           session_id == r.event[1]
           event == r.event[2]
       IN  /\ pty_events' = r.rest
           /\ received' = [received EXCEPT ![session_id] =
                  Append(@, [event |-> event,
                             extraction |-> /\ event.kind = "Wakeup"
                                            /\ lock_free
                                            /\ session_id \in DOMAIN sessions])]
           /\ consumer' = IF event.kind = "Exit" THEN "ended" ELSE "running"
           /\ arg' = Call(session_id, event.kind, <<>>)
    /\ op' = "pty_event_processor"
    /\ UNCHANGED <<ime_vars, sent, delivered, view_vars, color_vars, panicked>>
    /\ UNCHANGED <<sessions, is_running, engine, active_session, SESSION_ID_COUNTER>>
    /\ UNCHANGED <<ret, pty_writes, event_source, emitted, worker>>

(***************************************************************************)
(* SpecForwarding: sessions are created, their engines emit wake-ups and   *)
(* end by the exit of the child, and the forwarding threads and the        *)
(* consumer run.  In SpecPipeline sessions are closed as well, and their   *)
(* engines end by the shutdown message.  SpecPipelineFair adds that a      *)
(* thread that can take a step is scheduled, and that an engine that has   *)
(* been sent the shutdown message takes it.                                *)
(***************************************************************************)
NextForwarding ==
    \/ CreateLiveSession
    \/ \E id \in SessionIds : EngineWakeup(id)
    \/ \E id \in SessionIds : ChildExits(id)
    \/ \E id \in SessionIds : Worker(id)
    \/ \E lock_free \in BOOLEAN : Consumer(lock_free)

SpecForwarding == Init /\ [][NextForwarding]_vars

NextPipeline ==
    \/ NextForwarding
    \/ CloseCreated
    \/ \E id \in SessionIds : ShutdownTaken(id)

SpecPipeline == Init /\ [][NextPipeline]_vars

SpecPipelineFair ==
    /\ SpecPipeline
    /\ \A id \in SessionIds : WF_vars(Worker(id)) /\ WF_vars(ShutdownTaken(id))
    /\ WF_vars(\E lock_free \in BOOLEAN : Consumer(lock_free))

(***************************************************************************)
(* C26: the events of a session reach the consumer of the shared channel   *)
(* in the order in which its engine emitted them, however the forwarding   *)
(* of other sessions' events is interleaved: no event of a session         *)
(* overtakes an earlier event of the same session.                         *)
(***************************************************************************)
C26_PerSessionOrder ==
    \A id \in DOMAIN received :
        \A i, j \in 1..Len(received[id]) :
            i < j => received[id][i].event.seq < received[id][j].event.seq

\* two events of session 0 and, forwarded between them or around them, one
\* of session 1 have reached the consumer
C26_Witness ==
    /\ {0, 1} \subseteq DOMAIN received
    /\ Len(received[0]) = 2
    /\ Len(received[1]) = 1

\* the wake-up number seq of session id was emitted after the consumer had
\* taken an Exit, and waits in the session's channel
LateWakeup(id, seq) ==
    /\ id \in DOMAIN event_source
    /\ \E i \in 1..Len(event_source[id]) :
           /\ event_source[id][i].seq = seq
           /\ event_source[id][i].kind = "Wakeup"
           /\ event_source[id][i].late

\* the consumer has received event number seq of session id and has
\* extracted the session's content for it
Extracted(id, seq) ==
    /\ id \in DOMAIN received
    /\ \E i \in 1..Len(received[id]) :
           received[id][i].event.seq = seq /\ received[id][i].extraction

(***************************************************************************)
(* C27: the consumer keeps draining the shared channel for as long as a    *)
(* session is registered: a wake-up that a still-registered session emits  *)
(* after the Exit of another session has been consumed is eventually       *)
(* received by the consumer and triggers an extraction for its session.    *)
(***************************************************************************)
C27_ConsumerKeepsDraining ==
    \A id \in SessionIds, seq \in 1..MaxEvents :
        (id \in Registered /\ LateWakeup(id, seq)) ~> Extracted(id, seq)

(***************************************************************************)
(* C28: after close_session has closed a session, the session's            *)
(* forwarding thread eventually ends its loop, whether it receives an Exit *)
(* or its channel is disconnected with no Exit ever emitted.               *)
(***************************************************************************)
C28_WorkerTerminates ==
    \A id \in SessionIds :
        (id \in Closed /\ id \in DOMAIN worker)
            ~> (id \in DOMAIN worker /\ worker[id] = "ended")

(***************************************************************************)
(* The input router: the on_terminal_input handler of the UI.  A key event *)
(* carries a text and no modifier; tm_free and ime_free say whether        *)
(* try_lock() gets the manager and the composition engine.                 *)
(***************************************************************************)
\* handle_special_keys: Tab, Escape and the nine CSI sequences are sent as
\* they are (Backspace and Enter have been handled before)
handle_special_keys(text) ==
    IF text \in {<<9>>, <<27>>, <<27, 91, 65>>, <<27, 91, 66>>, <<27, 91, 67>>,
                 <<27, 91, 68>>, <<27, 91, 51, 126>>, <<27, 91, 72>>, <<27, 91, 70>>,
                 <<27, 91, 53, 126>>, <<27, 91, 54, 126>>}
    THEN Some(text) ELSE None

\* process_and_filter_terminal_input: Some of [state, result, panic], the
\* composition state afterwards and the text to write, or None when the
\* input is filtered
process_and_filter_terminal_input(state, input, ime_free) ==
    IF input = <<>> THEN None
    ELSE IF text_len(input) = 1
    THEN IF input[1] \in 32..126 \/ input[1] \in {10, 13, 9, 8, 12}
         THEN Some(Outcome(state, input))
         ELSE None
    ELSE IF \E i \in 1..Len(input) : input[i] \in 63232..63743 THEN None
    ELSE IF input[1] = 27 THEN None
    ELSE IF \A i \in 1..Len(input) :
                is_control(input[i]) /\ input[i] \notin {10, 13, 9, 8, 12} THEN None
    ELSE IF ime_free THEN Some(process_input(state, input))
    ELSE Some(Outcome(state, input))

\* what the handler does for the active session session_id: the composition
\* state afterwards, the texts handed to write_to_session one after the
\* other, and whether the composition engine unwound
on_terminal_input(session_id, text, ime_free) ==
    LET composing == /\ session_id \in DOMAIN terminal_states
                     /\ terminal_states[session_id].is_composing
        Handled(states, writes) == [states |-> states, writes |-> writes, panic |-> FALSE]
    IN  IF text = <<8>>
        THEN IF ~ime_free THEN Handled(terminal_states, <<>>)
             ELSE IF composing
             THEN Handled(put_state(session_id,
                                    state_handle_backspace(terminal_states[session_id])),
                          <<>>)
             ELSE Handled(terminal_states, <<text>>)
        ELSE IF text \in {<<13>>, <<10>>}
        THEN IF ime_free /\ composing
             THEN LET completed_char == get_current_char(terminal_states[session_id])
                      states == put_state(session_id, reset(terminal_states[session_id]))
                  IN  IF IsSome(completed_char)
                      THEN Handled(states, <<completed_char, <<10>>>>)
                      ELSE Handled(states, <<<<10>>>>)
             ELSE Handled(terminal_states, <<<<10>>>>)
        ELSE IF IsSome(handle_special_keys(text))
        THEN Handled(terminal_states, <<Unwrap(handle_special_keys(text))>>)
        ELSE LET filtered == process_and_filter_terminal_input(
                                 get_or_create_state(session_id), text, ime_free)
             IN  IF ~IsSome(filtered) THEN Handled(terminal_states, <<>>)
                 ELSE [states |-> IF text_len(text) = 1 \/ ~ime_free
                                  THEN terminal_states
                                  ELSE put_state(session_id, Unwrap(filtered).state),
                       writes |-> IF Unwrap(filtered).result = <<>>
                                  THEN <<>> ELSE <<Unwrap(filtered).result>>,
                       panic  |-> Unwrap(filtered).panic]

\* the keys typed in one scenario
MaxKeys == 4

\* window.on_terminal_input: nothing happens when the manager is locked or
\* no session is active
UIManager_on_terminal_input(text, tm_free, ime_free) ==
    LET RECURSIVE write_all(_, _, _)
        \* the manager after write_to_session(session_id, data) for every
        \* data of writes, in their order
        write_all(m, session_id, writes) ==
            IF writes = <<>> THEN m
            ELSE write_all(write(m, session_id, Head(writes)), session_id, Tail(writes))
        RECURSIVE concat(_)
        concat(strings) ==
            IF strings = <<>> THEN <<>> ELSE Head(strings) \o concat(Tail(strings))
    IN  /\ ~panicked
        /\ Len(typed) < MaxKeys
        /\ typed' = typed \o text
        /\ op' = "on_terminal_input"
        /\ inp' = text
        /\ IF tm_free /\ IsSome(active_session)
           THEN LET session_id == Unwrap(active_session)
                    r == on_terminal_input(session_id, text, ime_free)
                IN  /\ terminal_states' = r.states
                    /\ panicked' = r.panic
                    /\ SetManager(write_all(Manager, session_id, r.writes))
                    /\ sent' = sent \o concat(r.writes)
                    /\ result' = concat(r.writes)
                    /\ arg' = Call(session_id, IF ime_free THEN "ime" ELSE "ime_locked", text)
           ELSE /\ arg' = Call(0, "manager_locked", text)
                /\ result' = <<>>
                /\ UNCHANGED <<terminal_states, panicked, sent>>
                /\ UNCHANGED <<sessions, is_running, engine, active_session>>
        /\ UNCHANGED <<still_composing, preview, consumed, completed>>
        /\ UNCHANGED <<SESSION_ID_COUNTER, ret, pty_writes, view_vars, color_vars, pipe_vars>>
        /\ UNCHANGED delivered

(***************************************************************************)
(* SpecRouter: one session is created, and Backspace, Enter, 'a', the      *)
(* two-byte letter U+00E9 and the jamo U+3131 and U+314F are typed into    *)
(* it, with the locks free or held.                                        *)
(***************************************************************************)
RouterKeys == {<<8>>, <<13>>, <<97>>, <<233>>, <<12593>>, <<12623>>}

TerminalInput ==
    \E text \in RouterKeys, tm_free \in BOOLEAN, ime_free \in BOOLEAN :
        UIManager_on_terminal_input(text, tm_free, ime_free)

NextRouter == CreateFirstSession \/ TerminalInput

SpecRouter == Init /\ [][NextRouter]_vars

\* the handler has run for a key with both locks acquired
RouterStep == op' = "on_terminal_input" /\ arg'.kind = "ime"

\* the composition state of the session that the handler has run for
Pending == get_or_create_state(arg'.id)

(***************************************************************************)
(* C29: when a non-Korean printable character is typed while the active    *)
(* session's composition holds a composed character, the router writes the *)
(* composed character and then the typed character to the session, and the *)
(* composition state becomes Idle, so that the text written keeps the      *)
(* order of the keystrokes.                                                *)
(***************************************************************************)
C29_InterruptFlushesComposition ==
    [][(/\ RouterStep
        /\ Len(arg'.data) = 1
        /\ ~is_korean_jamo(arg'.data[1])
        /\ ~is_control(arg'.data[1])
        /\ Pending.is_composing
        /\ IsSome(get_current_char(Pending)))
       => /\ sent' = sent \o get_current_char(Pending) \o arg'.data
          /\ ~terminal_states'[arg'.id].is_composing]_vars

(***************************************************************************)
(* C30: when Enter is pressed while the active session's composition holds *)
(* an initial consonant and no medial, the router writes the consonant to  *)
(* the session and then the Enter byte: the consonant is not lost.         *)
(***************************************************************************)
C30_EnterKeepsConsonant ==
    [][(/\ RouterStep
        /\ arg'.data \in {<<13>>, <<10>>}
        /\ Pending.is_composing
        /\ IsSome(Pending.chosung)
        /\ ~IsSome(Pending.jungsung))
       => sent' = sent \o Pending.chosung \o <<10>>]_vars

(***************************************************************************)
(* SpecBackspace: one session is created, and Backspace and the jamo       *)
(* U+3131 and U+314F are typed into it, with the locks free or held.       *)
(***************************************************************************)
BackspaceKeys == {<<8>>, <<12593>>, <<12623>>}

BackspaceInput ==
    \E text \in BackspaceKeys, tm_free \in BOOLEAN, ime_free \in BOOLEAN :
        UIManager_on_terminal_input(text, tm_free, ime_free)

NextBackspace == CreateFirstSession \/ BackspaceInput

SpecBackspace == Init /\ [][NextBackspace]_vars

\* the occupied slots of a composition state
Slots(state) ==
    Cardinality({slot \in {"chosung", "jungsung", "jongsung"} : IsSome(state[slot])})

(***************************************************************************)
(* C31: when Backspace reaches the router and both the manager lock and    *)
(* the composition-engine lock are acquired, then either the active        *)
(* session is composing, one composition slot is removed and nothing is    *)
(* written to the session, or it is not composing, the composition states  *)
(* are unchanged and exactly one backspace byte is written to the session. *)
(***************************************************************************)
C31_BackspaceEitherConsumedOrSent ==
    [][(RouterStep /\ arg'.data = <<8>>)
       => IF arg'.id \in DOMAIN terminal_states /\ Pending.is_composing
          THEN /\ Slots(terminal_states'[arg'.id]) = Slots(Pending) - 1
               /\ sent' = sent
               /\ engine' = engine
          ELSE /\ terminal_states' = terminal_states
               /\ sent' = sent \o <<8>>
               /\ engine'[arg'.id].input = <<8>>]_vars

\* Backspace has been pressed twice after one consonant: the first removed
\* the consonant and wrote nothing, the second was written to the session
C31_Witness ==
    /\ op = "on_terminal_input"
    /\ arg.kind = "ime"
    /\ typed = <<12593, 8, 8>>
    /\ sent = <<8>>
    /\ 0 \in DOMAIN terminal_states
    /\ ~terminal_states[0].is_composing
    /\ Slots(terminal_states[0]) = 0

(***************************************************************************)
(* SpecTabs: sessions are created, 'ㄱ' is typed into the active one, tabs  *)
(* are closed by the close-tab handler, Exit and Title events arrive and   *)
(* the dead sessions are cleaned up.                                       *)
(***************************************************************************)
TypeConsonant == UIManager_on_terminal_input(<<12593>>, TRUE, TRUE)

\* window.on_close_tab_clicked: close_session(tab_id), and nothing else
UIManager_on_close_tab_clicked == CloseCreated

NextTabs ==
    \/ CreateLiveSession \/ TypeConsonant \/ UIManager_on_close_tab_clicked
    \/ ExitOrTitle \/ CleanupDeadSessions

SpecTabs == Init /\ [][NextTabs]_vars

(***************************************************************************)
(* C32: once a session has been closed, by the close-tab handler or by     *)
(* cleanup_dead_sessions, the composition engine holds no composition      *)
(* state under that session's id.                                          *)
(***************************************************************************)
C32_ClosedSessionHasNoComposition ==
    \A id \in Closed : id \notin DOMAIN terminal_states

(***************************************************************************)
(* The manager's best-effort paths: process_pty_event_sync and             *)
(* update_session_content_and_get take the buffer's lock, and the first    *)
(* the liveness flag's lock, with try_lock(); content_free and             *)
(* running_free say whether try_lock() gets them.                          *)
(***************************************************************************)
\* a best-effort path that pushes the text and does not trim
try_lock_push_str(content, text, content_free) ==
    [content |-> IF content_free THEN push_str(content, text) ELSE content,
     panic |-> FALSE]

\* if let Ok(mut content_guard) = session.content.try_lock() { push_str and
\* the trim }: the buffer stays as it is when the lock is held elsewhere
try_lock_append_and_trim(content, text, content_free) ==
    IF content_free THEN append_and_trim(content, text)
    ELSE [content |-> content, panic |-> FALSE]

\* the kind recorded for a call: the event's, marked when a try_lock() failed
Locked(kind, free) == IF free THEN kind ELSE kind \o "_locked"

TerminalManager_process_pty_event_sync(session_id, kind, data, content_free, running_free) ==
    /\ ~panicked
    /\ IF kind = "PtyWrite" /\ session_id \in DOMAIN sessions
       THEN LET r == try_lock_append_and_trim(sessions[session_id].content, data,
                                              content_free)
            IN  /\ sessions' = [sessions EXCEPT ![session_id].content = r.content]
                /\ panicked' = r.panic
                /\ delivered' = [delivered EXCEPT ![session_id] = push_str(@, data)]
                /\ UNCHANGED is_running
       ELSE IF kind = "Exit" /\ session_id \in DOMAIN sessions /\ running_free
       THEN /\ is_running' = [is_running EXCEPT ![session_id] = FALSE]
            /\ UNCHANGED <<sessions, panicked, delivered>>
       ELSE UNCHANGED <<sessions, is_running, panicked, delivered>>
    /\ op' = "process_pty_event_sync"
    /\ arg' = Call(session_id,
                   Locked(kind, IF kind = "PtyWrite" THEN content_free ELSE running_free),
                   data)
    /\ ret' = "Ok"
    /\ pty_writes' = IF kind = "PtyWrite" THEN pty_writes + 1 ELSE pty_writes
    /\ UNCHANGED <<engine, active_session, SESSION_ID_COUNTER, ime_vars>>
    /\ UNCHANGED <<view_vars, color_vars, pipe_vars, sent>>

\* returns Some(content) when the session is registered and its buffer's lock
\* was free, None otherwise
TerminalManager_update_session_content_and_get(session_id, text, content_free) ==
    /\ ~panicked
    /\ IF session_id \in DOMAIN sessions
       THEN LET r == try_lock_append_and_trim(sessions[session_id].content, text,
                                              content_free)
            IN  /\ sessions' = [sessions EXCEPT ![session_id].content = r.content]
                /\ panicked' = r.panic
                /\ delivered' = [delivered EXCEPT ![session_id] = push_str(@, text)]
                /\ ret' = IF content_free THEN "Some" ELSE "None"
       ELSE /\ ret' = "None"
            /\ UNCHANGED <<sessions, panicked, delivered>>
    /\ op' = "update_session_content_and_get"
    /\ arg' = Call(session_id, Locked("PtyWrite", content_free), text)
    /\ pty_writes' = pty_writes + 1
    /\ UNCHANGED <<is_running, engine, active_session, SESSION_ID_COUNTER, ime_vars>>
    /\ UNCHANGED <<view_vars, color_vars, pipe_vars, sent>>

(***************************************************************************)
(* SpecPaths: one session is created and texts reach its buffer through    *)
(* the asynchronous path and the two best-effort paths, whose try_lock()   *)
(* succeeds or fails.  The texts are a line of 10,000 three-byte           *)
(* characters and its newline, a single byte, and a newline followed by    *)
(* 20,000 bytes.                                                           *)
(***************************************************************************)
PathTexts ==
    { <<Chars(3, 10000), Newlines(1)>>,
      <<Chars(1, 1)>>,
      <<Newlines(1), Chars(1, 20000)>> }

MaxDeliveries == 3

Deliver ==
    \E id \in DOMAIN sessions, text \in PathTexts :
        /\ pty_writes < MaxDeliveries
        /\ TerminalManager_process_pty_event(id, "PtyWrite", text)

DeliverSync ==
    \E id \in DOMAIN sessions, text \in PathTexts, content_free \in BOOLEAN :
        /\ pty_writes < MaxDeliveries
        /\ TerminalManager_process_pty_event_sync(id, "PtyWrite", text, content_free, TRUE)

UpdateContent ==
    \E id \in DOMAIN sessions, text \in PathTexts, content_free \in BOOLEAN :
        /\ pty_writes < MaxDeliveries
        /\ TerminalManager_update_session_content_and_get(id, text, content_free)

NextPaths == CreateFirstSession \/ Deliver \/ DeliverSync \/ UpdateContent

SpecPaths == Init /\ [][NextPaths]_vars

CharCells(line) ==
    SelectSeq(grid.lines[line + 1], LAMBDA cell : "WIDE_CHAR_SPACER" \notin cell.flags)

(***************************************************************************)
(* C34: every segment that the extraction emits carries the resolved       *)
(* foreground and background colour (INVERSE and DIM applied) of each cell *)
(* whose character it holds, the first cell of the first line included,    *)
(* and two consecutive segments of one line differ in their (foreground,   *)
(* background) pair.                                                       *)
(***************************************************************************)
C34_SegmentColors ==
    \A k \in 1..Len(extracted) :
        LET segs == extracted[k].segments
        IN  /\ \A i \in 1..Len(segs) : \A j \in 1..Len(segs[i].text) :
                   resolved_colors(ColorTheme_default,
                                   CharCells(segs[i].line)[segs[i].start_col + j])
                       = [fg |-> segs[i].fg_color, bg |-> segs[i].bg_color]
            /\ \A i \in 1..(Len(segs) - 1) :
                   segs[i].line = segs[i + 1].line
                       => <<segs[i].fg_color, segs[i].bg_color>>
                              # <<segs[i + 1].fg_color, segs[i + 1].bg_color>>

(***************************************************************************)
(* SpecExit: sessions are created or not, Exit and Title events reach them *)
(* through the asynchronous path, Exit events through the synchronous      *)
(* path, whose try_lock() on the liveness flag succeeds or fails, and the  *)
(* dead sessions are cleaned up.                                           *)
(***************************************************************************)
ExitSync ==
    \E id \in SessionIds, running_free \in BOOLEAN :
        /\ id < SESSION_ID_COUNTER
        /\ TerminalManager_process_pty_event_sync(id, "Exit", <<>>, TRUE, running_free)

NextExit == CreateSession \/ ExitOrTitle \/ ExitSync \/ CleanupDeadSessions

SpecExit == Init /\ [][NextExit]_vars

(***************************************************************************)
(* C35: once an Exit event for a registered session has been handed to     *)
(* process_pty_event or to process_pty_event_sync, whoever else holds the  *)
(* lock of the session's liveness flag at that time, the flag is false, so *)
(* that the next cleanup_dead_sessions removes the session.                *)
(***************************************************************************)
C35_ExitClearsLiveness ==
    (/\ op \in {"process_pty_event", "process_pty_event_sync"}
     /\ arg.kind \in {"Exit", "Exit_locked"}
     /\ arg.id \in DOMAIN sessions)
        => ~is_running[arg.id]

\* str::ends_with, for strings whose adjacent runs differ in kind
ends_with(s, suffix) ==
    \/ suffix = <<>>
    \/ /\ Len(suffix) <= Len(s)
       /\ Tail(suffix) = SubSeq(s, Len(s) - Len(suffix) + 2, Len(s))
       /\ SameKind(Head(suffix), s[Len(s) - Len(suffix) + 1])
       /\ Head(suffix).n <= s[Len(s) - Len(suffix) + 1].n

(***************************************************************************)
(* C36: whatever path the Output events of a session were handed to, and   *)
(* whatever the contention on the buffer's lock, the scrollback buffer of  *)
(* the session is a contiguous suffix of the concatenation of all the      *)
(* Output texts delivered so far for it: bytes are removed from the front  *)
(* only, and none is missing from the middle.                              *)
(***************************************************************************)
C36_ScrollbackIsSuffix ==
    \A id \in DOMAIN sessions : ends_with(delivered[id], sessions[id].content)

(***************************************************************************)
(* C37: in every composition state reached through process_input, an       *)
(* occupied initial slot holds one of the 19 initial consonants, so that   *)
(* with the medial slot occupied too the composed character is defined; a  *)
(* compound final such as U+3133 is never moved into the initial slot.     *)
(***************************************************************************)
C37_InitialSlotValid ==
    \A t \in DOMAIN terminal_states :
        LET state == terminal_states[t]
        IN  IsSome(state.chosung)
                => /\ IsSome(get_chosung_index(Unwrap(state.chosung)))
                   /\ IsSome(state.jungsung) => IsSome(get_current_char(state))

(***************************************************************************)
(* C38: in every composition state reached through process_input, an       *)
(* occupied final slot holds one of the 27 final consonants, so that the   *)
(* committed syllable encodes the final that was typed; a consonant that   *)
(* cannot be a final (U+3138, U+3143, U+3149) is never stored in the final *)
(* slot.                                                                   *)
(***************************************************************************)
C38_FinalSlotValid ==
    \A t \in DOMAIN terminal_states :
        LET state == terminal_states[t]
        IN  IsSome(state.jongsung)
                => /\ IsSome(get_jongsung_index(Unwrap(state.jongsung)))
                   /\ Unwrap(state.jongsung) \notin {12600, 12611, 12617}

(***************************************************************************)
(* C39: whenever a text is pushed on a scrollback buffer, in any of the    *)
(* three paths, and the buffer then exceeds the high-water mark, the drop  *)
(* offset (the length less 40,000 bytes) is a character boundary of the    *)
(* buffer, multi-byte characters included, so that the trim's slice does   *)
(* not abort the path.                                                     *)
(***************************************************************************)
C39_TrimOnCharBoundary ==
    [][(/\ op' \in {"process_pty_event", "process_pty_event_sync",
                    "update_session_content_and_get"}
        /\ arg'.kind = "PtyWrite"
        /\ arg'.id \in DOMAIN sessions)
       => LET pushed == push_str(sessions[arg'.id].content, arg'.data)
          IN  /\ String_len(pushed) > HighWaterMark
                     => is_char_boundary(pushed, String_len(pushed) - LowWaterMark)
              /\ ~panicked']_vars

\* the grid columns (from 0) of the cells of line number line that are no
\* wide-character spacers, in their order
CharColumns(line) ==
    SelectSeq([col \in 1..Columns |-> col - 1],
              LAMBDA col : "WIDE_CHAR_SPACER" \notin grid.lines[line + 1][col + 1].flags)

(***************************************************************************)
(* C40: for every segment that the extraction emits, start_col is the grid *)
(* column of the cell that holds the segment's first character, and        *)
(* end_col is one past the grid column that its last character occupies    *)
(* (one past the cell of that character, or one past its spacer when the   *)
(* character is wide), also on lines with wide characters.                 *)
(***************************************************************************)
C40_SegmentColumns ==
    \A k \in 1..Len(extracted) :
        LET segs == extracted[k].segments
        IN  \A i \in 1..Len(segs) :
                LET columns == CharColumns(segs[i].line)
                    first == columns[segs[i].start_col + 1]
                    last == columns[segs[i].start_col + Len(segs[i].text)]
                    wide == "WIDE_CHAR" \in grid.lines[segs[i].line + 1][last + 1].flags
                IN  /\ segs[i].start_col = first
                    /\ segs[i].end_col = IF wide THEN last + 2 ELSE last + 1

====
